---- MODULE Spec2Model ----
(***************************************************************************)
(* Model of the question-text parser of src/components/mcq-parser.tsx:     *)
(* the JSON question extractor (parseJSONFormat / parseJSONQuestion), the  *)
(* line-pattern parser and the structured-header parser (parseMCQText /    *)
(* parseStructuredFormat) and the dispatcher (parseText).                  *)
(*                                                                         *)
(* A JavaScript string is a sequence of one-character strings; the marker  *)
(* glyph U+2705 and the check mark U+2713 are one element each.  A decoded *)
(* JSON value is a tagged record; an object is the sequence of its         *)
(* properties in enumeration order.  A call that throws is a result with   *)
(* threw = TRUE.                                                           *)
(***************************************************************************)
EXTENDS Integers, Sequences, FiniteSets, TLC

\* ------------------------------------------------------------------------
\* Bounds of the input space
\* ------------------------------------------------------------------------
MaxOpts == 3
MaxBatch == 3
MaxLines == 4
MaxHeaderLines == 4
MaxTailLines == 3
MaxParsed == 2
MaxFiles == 2
MaxProps == 3
MaxCalls == 3
MaxBlocks == 3
MaxEdits == 1
MaxElapsed == 1
MaxShuffled == 3
MaxEditorOptions == 4
MaxHandled == 5

\* ------------------------------------------------------------------------
\* JavaScript strings
\* ------------------------------------------------------------------------
GLYPH == "U+2705"
TICK == "U+2713"
NL == "\n"

UpperLetters == <<"A", "B", "C", "D", "E", "F", "G", "H", "I", "J", "K", "L", "M",
                  "N", "O", "P", "Q", "R", "S", "T", "U", "V", "W", "X", "Y", "Z">>
LowerLetters == <<"a", "b", "c", "d", "e", "f", "g", "h", "i", "j", "k", "l", "m",
                  "n", "o", "p", "q", "r", "s", "t", "u", "v", "w", "x", "y", "z">>
Digits == {"0", "1", "2", "3", "4", "5", "6", "7", "8", "9"}

UpperSet == {UpperLetters[i] : i \in 1..26}
LowerSet == {LowerLetters[i] : i \in 1..26}

LetterIndex(c) == CHOOSE i \in 1..26 : UpperLetters[i] = c \/ LowerLetters[i] = c

LowerChar(c) == IF c \in UpperSet THEN LowerLetters[LetterIndex(c)] ELSE c
UpperChar(c) == IF c \in LowerSet THEN UpperLetters[LetterIndex(c)] ELSE c

toLowerCase(s) == [i \in 1..Len(s) |-> LowerChar(s[i])]

IsSpace(c) == c \in {" ", NL}
IsDigit(c) == c \in Digits
IsWordChar(c) == c \in UpperSet \cup LowerSet \cup Digits \cup {"_"}

RECURSIVE trimStart(_)
trimStart(s) == IF s # <<>> /\ IsSpace(Head(s)) THEN trimStart(Tail(s)) ELSE s

RECURSIVE trimEnd(_)
trimEnd(s) == IF s # <<>> /\ IsSpace(s[Len(s)]) THEN trimEnd(SubSeq(s, 1, Len(s) - 1)) ELSE s

trim(s) == trimEnd(trimStart(s))

\* p occurs in s starting at (1-based) position i
MatchAt(s, i, p) == i + Len(p) - 1 <= Len(s) /\ \A k \in 1..Len(p) : s[i + k - 1] = p[k]

\* same, ignoring letter case (a literal under the regex flag i)
MatchAtI(s, i, p) == i + Len(p) - 1 <= Len(s) /\ \A k \in 1..Len(p) : LowerChar(s[i + k - 1]) = LowerChar(p[k])

includes(s, p) == \E i \in 1..(Len(s) - Len(p) + 1) : MatchAt(s, i, p)

startsWith(s, p) == MatchAt(s, 1, p)

\* s.replace(/p/g, "") for a literal p: leftmost non-overlapping occurrences
RECURSIVE removeAll(_, _)
removeAll(s, p) ==
  IF s = <<>> THEN <<>>
  ELSE IF MatchAt(s, 1, p) THEN removeAll(SubSeq(s, Len(p) + 1, Len(s)), p)
  ELSE <<Head(s)>> \o removeAll(Tail(s), p)

\* findIndex: hits is the set of (1-based) positions that satisfy the
\* predicate; the result is 0-based, -1 when there is none
findIndex(hits) ==
  IF hits = {} THEN -1 ELSE (CHOOSE i \in hits : \A j \in hits : i <= j) - 1

\* ------------------------------------------------------------------------
\* JavaScript values
\* ------------------------------------------------------------------------
Undefined == [t |-> "undefined"]
JNull == [t |-> "null"]
JBool(b) == [t |-> "bool", b |-> b]
JNum(n) == [t |-> "num", n |-> n]
JStr(s) == [t |-> "str", s |-> s]
JArr(a) == [t |-> "arr", a |-> a]
JObj(o) == [t |-> "obj", o |-> o]
Prop(k, v) == [k |-> k, v |-> v]

\* ToBoolean
Truthy(v) ==
  CASE v.t = "undefined" -> FALSE
    [] v.t = "null" -> FALSE
    [] v.t = "bool" -> v.b
    [] v.t = "num" -> v.n # 0
    [] v.t = "str" -> v.s # <<>>
    [] OTHER -> TRUE

\* v.key throws a TypeError on null and undefined
GetThrows(v) == v.t \in {"null", "undefined"}

\* v.key for the keys the parser reads (none is a property of a string, a
\* number, a boolean or an array)
Get(v, key) ==
  IF v.t = "obj" /\ \E i \in 1..Len(v.o) : v.o[i].k = key
  THEN v.o[CHOOSE i \in 1..Len(v.o) : v.o[i].k = key].v
  ELSE Undefined

isArray(v) == v.t = "arr"

\* ------------------------------------------------------------------------
\* Property keys read by the JSON question extractor
\* ------------------------------------------------------------------------
K_question == <<"q", "u", "e", "s", "t", "i", "o", "n">>
K_options == <<"o", "p", "t", "i", "o", "n", "s">>
K_correct_answer == <<"c", "o", "r", "r", "e", "c", "t", "_", "a", "n", "s", "w", "e", "r">>
K_reasoning == <<"r", "e", "a", "s", "o", "n", "i", "n", "g">>
K_title == <<"t", "i", "t", "l", "e">>
K_questions == <<"q", "u", "e", "s", "t", "i", "o", "n", "s">>
K_explanation == <<"e", "x", "p", "l", "a", "n", "a", "t", "i", "o", "n">>
K_context_note == <<"c", "o", "n", "t", "e", "x", "t", "_", "n", "o", "t", "e">>
K_note == <<"n", "o", "t", "e">>

\* ------------------------------------------------------------------------
\* Results of calls
\* ------------------------------------------------------------------------
\* the id `q-${n}` is represented by n
MCQQuestion(id, question, options, correctAnswer, explanation, additionalSections) ==
  [id |-> id, question |-> question, options |-> options, correctAnswer |-> correctAnswer,
   explanation |-> explanation, additionalSections |-> additionalSections]

Thrown == [threw |-> TRUE]
ReturnedNull == [threw |-> FALSE, some |-> FALSE]
ReturnedQuestion(q) == [threw |-> FALSE, some |-> TRUE, q |-> q]
ReturnedList(qs) == [threw |-> FALSE, questions |-> qs]

\* ------------------------------------------------------------------------
\* JSON question extractor
\* ------------------------------------------------------------------------
\* faulty variant: the title is not excluded
ReservedKeys_withoutTitle == {K_question, K_options, K_correct_answer, K_reasoning}

ReservedKeys == {K_question, K_options, K_correct_answer, K_reasoning, K_title}

\* key.replace(/_/g, " ").replace(/\b\w/g, (l) => l.toUpperCase())
titleOfKey(key) ==
  LET spaced == [i \in 1..Len(key) |-> IF key[i] = "_" THEN " " ELSE key[i]]
  IN [i \in 1..Len(spaced) |->
        IF IsWordChar(spaced[i]) /\ (i = 1 \/ ~IsWordChar(spaced[i - 1]))
        THEN UpperChar(spaced[i]) ELSE spaced[i]]

IsSectionProp(p) == p.k \notin ReservedKeys /\ p.v.t = "str" /\ trim(p.v.s) # <<>>

additionalSectionsOf(item) ==
  LET props == SelectSeq(item.o, IsSectionProp)
  IN [i \in 1..Len(props) |-> [title |-> titleOfKey(props[i].k), content |-> props[i].v.s]]

\* the shape check of parseJSONQuestion
shapeRejected(item) ==
  \/ ~Truthy(Get(item, K_question))
  \/ ~Truthy(Get(item, K_options))
  \/ ~isArray(Get(item, K_options))

\* option.replace(/GLYPH/g, "").trim()
cleanOption(option) == trim(removeAll(option, <<GLYPH>>))

hasGlyph(option) == includes(option, <<GLYPH>>)

\* correctAnswer after the options.forEach loop: the last marked position
markedAnswer(rawOptions) ==
  LET marked == {i \in 1..Len(rawOptions) : hasGlyph(rawOptions[i])}
  IN IF marked = {} THEN 0
     ELSE (CHOOSE i \in marked : \A j \in marked : j <= i) - 1

\* faulty variant: the comparison forgets to fold the option's case
answerMatches_caseSensitive(opt, correctAnswerText) ==
  \/ includes(opt, correctAnswerText)
  \/ includes(correctAnswerText, opt)

\* the findIndex predicate of the correct_answer fallback
answerMatches(opt, correctAnswerText) ==
  \/ includes(toLowerCase(opt), correctAnswerText)
  \/ includes(correctAnswerText, toLowerCase(opt))

\* faulty variant: the answer text is consulted even when an option is marked
usesAnswerText_ignoringGlyph(rawOptions, answer) == Truthy(answer)

\* the guard of the correct_answer fallback
usesAnswerText(rawOptions, answer) ==
  (~\E i \in 1..Len(rawOptions) : hasGlyph(rawOptions[i])) /\ Truthy(answer)

\* faulty variant: the last matching option is taken instead of the first
matchingIndexOf_last(cleanOptions, correctAnswerText) ==
  LET hits == {i \in 1..Len(cleanOptions) : answerMatches(cleanOptions[i], correctAnswerText)}
  IN IF hits = {} THEN -1 ELSE (CHOOSE i \in hits : \A j \in hits : j <= i) - 1

\* cleanOptions.findIndex(...) of the correct_answer fallback
matchingIndexOf(cleanOptions, correctAnswerText) ==
  findIndex({i \in 1..Len(cleanOptions) : answerMatches(cleanOptions[i], correctAnswerText)})

\* faulty variant: the result of findIndex is stored without the -1 check
resolveCorrectAnswer_unchecked(rawOptions, answer) ==
  LET cleanOptions == [i \in 1..Len(rawOptions) |-> cleanOption(rawOptions[i])]
  IN IF usesAnswerText(rawOptions, answer)
     THEN matchingIndexOf(cleanOptions, trim(toLowerCase(answer.s)))
     ELSE markedAnswer(rawOptions)

\* correctAnswer of an item whose options are all strings and whose
\* correct_answer, when consulted, is a string
resolveCorrectAnswer(rawOptions, answer) ==
  LET cleanOptions == [i \in 1..Len(rawOptions) |-> cleanOption(rawOptions[i])]
      afterLoop == markedAnswer(rawOptions)
  IN IF usesAnswerText(rawOptions, answer)
     THEN LET matchingIndex == matchingIndexOf(cleanOptions, trim(toLowerCase(answer.s)))
          IN IF matchingIndex # -1 THEN matchingIndex ELSE afterLoop
     ELSE afterLoop

\* a || b || undefined
explanationOf(item) ==
  IF Truthy(Get(item, K_reasoning)) THEN Get(item, K_reasoning)
  ELSE IF Truthy(Get(item, K_explanation)) THEN Get(item, K_explanation)
  ELSE Undefined

parseJSONQuestion(item, index) ==
  IF GetThrows(item) THEN Thrown
  ELSE IF shapeRejected(item) THEN ReturnedNull
  ELSE
    LET opts == Get(item, K_options).a
        answer == Get(item, K_correct_answer)
        sections == additionalSectionsOf(item)
    IN IF \E i \in 1..Len(opts) : opts[i].t # "str" THEN Thrown
       ELSE
         LET rawOptions == [i \in 1..Len(opts) |-> opts[i].s]
         IN IF usesAnswerText(rawOptions, answer) /\ answer.t # "str" THEN Thrown
            ELSE ReturnedQuestion(MCQQuestion(
                   index,
                   Get(item, K_question),
                   [i \in 1..Len(rawOptions) |-> cleanOption(rawOptions[i])],
                   resolveCorrectAnswer(rawOptions, answer),
                   explanationOf(item),
                   IF Len(sections) > 0 THEN JArr(sections) ELSE Undefined))

\* data.forEach((item, index) => { ... if (question) questions.push(question) })
parseJSONBatch(items) ==
  LET parsedItems == [i \in 1..Len(items) |-> parseJSONQuestion(items[i], i - 1)]
      Kept(r) == r.some
  IN IF \E i \in 1..Len(items) : parsedItems[i].threw THEN Thrown
     ELSE LET kept == SelectSeq(parsedItems, Kept)
          IN ReturnedList([i \in 1..Len(kept) |-> kept[i].q])

parseJSONFormat(data) ==
  IF GetThrows(data) THEN Thrown
  ELSE IF Truthy(Get(data, K_question)) /\ Truthy(Get(data, K_options))
       THEN parseJSONBatch(<<data>>)
  ELSE IF isArray(data) THEN parseJSONBatch(data.a)
  ELSE IF Truthy(Get(data, K_questions)) /\ isArray(Get(data, K_questions))
       THEN parseJSONBatch(Get(data, K_questions).a)
  ELSE ReturnedList(<<>>)

\* ------------------------------------------------------------------------
\* Line-pattern parser (second half of parseMCQText)
\* ------------------------------------------------------------------------
\* text.split("\n")
RECURSIVE split(_)
split(text) ==
  IF \E i \in 1..Len(text) : text[i] = NL
  THEN LET i == CHOOSE i \in 1..Len(text) : text[i] = NL /\ \A j \in 1..(i - 1) : text[j] # NL
       IN <<SubSeq(text, 1, i - 1)>> \o split(SubSeq(text, i + 1, Len(text)))
  ELSE <<text>>

NonBlank(line) == trim(line) # <<>>

\* text.split("\n").filter((line) => line.trim()), each line trimmed
trimmedLines(text) ==
  LET kept == SelectSeq(split(text), NonBlank)
  IN [i \in 1..Len(kept) |-> trim(kept[i])]

dropFirst(s, n) == SubSeq(s, n + 1, Len(s))

\* number of digits of s from position i on
RECURSIVE digitRun(_, _)
digitRun(s, i) == IF i <= Len(s) /\ IsDigit(s[i]) THEN 1 + digitRun(s, i + 1) ELSE 0

\* length of the match of \.?\s at position i, 0 when there is none
dotSpace(s, i) ==
  IF i <= Len(s) /\ IsSpace(s[i]) THEN 1
  ELSE IF i + 1 <= Len(s) /\ s[i] = "." /\ IsSpace(s[i + 1]) THEN 2
  ELSE 0

\* length of the match of /^\d+\.?\s|^Q\d*\.?\s/i, 0 when there is none
questionLabelLen(line) ==
  LET d == digitRun(line, 1)
      qd == digitRun(line, 2)
  IN IF d >= 1 /\ dotSpace(line, d + 1) > 0 THEN d + dotSpace(line, d + 1)
     ELSE IF line # <<>> /\ LowerChar(line[1]) = "q" /\ dotSpace(line, qd + 2) > 0
          THEN 1 + qd + dotSpace(line, qd + 2)
     ELSE 0

isQuestionLine(line) == questionLabelLen(line) > 0

AnswerLetters == {"A", "B", "C", "D", "a", "b", "c", "d"}

\* /^[A-Da-d][.)]\s/
isOptionLine(line) ==
  Len(line) >= 3 /\ line[1] \in AnswerLetters /\ line[2] \in {".", ")"} /\ IsSpace(line[3])

\* position after the run of white space that starts at i
RECURSIVE skipSpaces(_, _)
skipSpaces(s, i) == IF i <= Len(s) /\ IsSpace(s[i]) THEN skipSpaces(s, i + 1) ELSE i

W_Answer == <<"A", "n", "s", "w", "e", "r", ":">>
W_Correct == <<"C", "o", "r", "r", "e", "c", "t", ":">>
W_Ans == <<"A", "n", "s", ":">>
W_Explanation == <<"E", "x", "p", "l", "a", "n", "a", "t", "i", "o", "n", ":">>
W_Reason == <<"R", "e", "a", "s", "o", "n", ":">>
W_Why == <<"W", "h", "y", ":">>

\* length of the first of the keywords (each ending in a colon) that line
\* starts with, ignoring case; 0 when there is none
keywordLen(line, keywords) ==
  LET hits == {k \in 1..Len(keywords) : MatchAtI(line, 1, keywords[k])}
  IN IF hits = {} THEN 0 ELSE Len(keywords[CHOOSE k \in hits : \A j \in hits : k <= j])

\* /^(Answer|Correct|Ans):\s*[A-Da-d]/i
isAnswerLine(line) ==
  \E k \in 1..3 :
    LET w == <<W_Answer, W_Correct, W_Ans>>[k]
        j == skipSpaces(line, Len(w) + 1)
    IN MatchAtI(line, 1, w) /\ j <= Len(line) /\ line[j] \in AnswerLetters

\* line.match(/[A-Da-d]/)[0].toUpperCase().charCodeAt(0) - 65
answerIndexOf(line) ==
  LET i == CHOOSE i \in 1..Len(line) :
             line[i] \in AnswerLetters /\ \A j \in 1..(i - 1) : line[j] \notin AnswerLetters
  IN LetterIndex(line[i]) - 1

\* /^(Explanation|Reason|Why):/i
isExplanationLine(line) == keywordLen(line, <<W_Explanation, W_Reason, W_Why>>) > 0

\* line.replace(/^(Explanation|Reason|Why):\s*/i, "").trim()
explanationTextOf(line) ==
  trim(dropFirst(line, skipSpaces(line, keywordLen(line, <<W_Explanation, W_Reason, W_Why>>) + 1) - 1))

\* faulty variant: only the asterisk marks an option
hasEmphasis_starOnly(line) == includes(line, <<"*">>)

hasEmphasis(line) == includes(line, <<"*">>) \/ includes(line, <<TICK>>)

\* let currentQuestion: Partial<MCQQuestion> = {}
EmptyPartial ==
  [question |-> Undefined, options |-> Undefined, correctAnswer |-> Undefined, explanation |-> Undefined]

\* faulty variant: a question text is not required
isComplete_optionsOnly(cq) == Truthy(cq.options)

\* currentQuestion.question && currentQuestion.options
isComplete(cq) == Truthy(cq.question) /\ Truthy(cq.options)

\* currentQuestion.correctAnswer || 0
orZero(v) == IF Truthy(v) THEN v.n ELSE 0

flushed(cq, counter) ==
  MCQQuestion(counter, cq.question, cq.options.a, orZero(cq.correctAnswer), cq.explanation, Undefined)

\* faulty variant: the counter is not advanced after a flush
lineStep_sameId(st, line) ==
  LET cq == st.cq
  IN IF isQuestionLine(line)
     THEN [questions |-> IF isComplete(cq) THEN Append(st.questions, flushed(cq, st.counter)) ELSE st.questions,
           counter |-> st.counter,
           cq |-> [question |-> JStr(trim(dropFirst(line, questionLabelLen(line)))),
                   options |-> JArr(<<>>), correctAnswer |-> JNum(0), explanation |-> Undefined]]
     ELSE IF isOptionLine(line)
     THEN LET old == IF Truthy(cq.options) THEN cq.options.a ELSE <<>>
              new == Append(old, trim(dropFirst(line, 3)))
          IN [st EXCEPT !.cq = [cq EXCEPT !.options = JArr(new),
                                          !.correctAnswer = IF hasEmphasis(line) THEN JNum(Len(new) - 1) ELSE @]]
     ELSE IF isAnswerLine(line)
     THEN [st EXCEPT !.cq = [cq EXCEPT !.correctAnswer = JNum(answerIndexOf(line))]]
     ELSE IF isExplanationLine(line)
     THEN [st EXCEPT !.cq = [cq EXCEPT !.explanation = JStr(explanationTextOf(line))]]
     ELSE st

\* one iteration of the loop over the lines
lineStep(st, line) ==
  LET cq == st.cq
  IN IF isQuestionLine(line)
     THEN [questions |-> IF isComplete(cq) THEN Append(st.questions, flushed(cq, st.counter)) ELSE st.questions,
           counter |-> IF isComplete(cq) THEN st.counter + 1 ELSE st.counter,
           cq |-> [question |-> JStr(trim(dropFirst(line, questionLabelLen(line)))),
                   options |-> JArr(<<>>), correctAnswer |-> JNum(0), explanation |-> Undefined]]
     ELSE IF isOptionLine(line)
     THEN LET old == IF Truthy(cq.options) THEN cq.options.a ELSE <<>>
              new == Append(old, trim(dropFirst(line, 3)))
          IN [st EXCEPT !.cq = [cq EXCEPT !.options = JArr(new),
                                          !.correctAnswer = IF hasEmphasis(line) THEN JNum(Len(new) - 1) ELSE @]]
     ELSE IF isAnswerLine(line)
     THEN [st EXCEPT !.cq = [cq EXCEPT !.correctAnswer = JNum(answerIndexOf(line))]]
     ELSE IF isExplanationLine(line)
     THEN [st EXCEPT !.cq = [cq EXCEPT !.explanation = JStr(explanationTextOf(line))]]
     ELSE st

RECURSIVE lineLoop(_, _)
lineLoop(st, lines) ==
  IF lines = <<>> THEN st ELSE lineLoop(lineStep(st, Head(lines)), Tail(lines))

\* the line-pattern pass; now is Date.now()
parseLinePattern(text, now) ==
  LET st == lineLoop([questions |-> <<>>, counter |-> now, cq |-> EmptyPartial], trimmedLines(text))
  IN IF isComplete(st.cq) THEN Append(st.questions, flushed(st.cq, st.counter)) ELSE st.questions

\* ------------------------------------------------------------------------
\* Structured-header parser
\* ------------------------------------------------------------------------
L_Question == <<"Q", "u", "e", "s", "t", "i", "o", "n", ":">>
L_Options == <<"O", "p", "t", "i", "o", "n", "s", ":">>
L_CorrectAnswer == <<"C", "o", "r", "r", "e", "c", "t", " ", "A", "n", "s", "w", "e", "r", ":">>
L_Reasoning == <<"R", "e", "a", "s", "o", "n", "i", "n", "g", ":">>
BOLD == <<"*", "*">>

bold(label) == BOLD \o label \o BOLD

\* number of dashes of s from position i on
RECURSIVE dashRun(_, _)
dashRun(s, i) == IF i <= Len(s) /\ s[i] = "-" THEN 1 + dashRun(s, i + 1) ELSE 0

\* /\*\*Label:\*\*/i matches at position i
boldAt(s, i, label) == MatchAtI(s, i, bold(label))

\* /Label:\s*-+/i matches at position i
plainAt(s, i, label) ==
  MatchAtI(s, i, label) /\ dashRun(s, skipSpaces(s, i + Len(label))) >= 1

\* /\*\*Label:\*\*|Label:\s*-+/i.test(s)
hasLabel(s, label) == \E i \in 1..Len(s) : boldAt(s, i, label) \/ plainAt(s, i, label)

\* the group (.+) of /(?:\*\*Label:\*\*|Label:\s*-+)\s*(.+)/i tried at position
\* i: <<>> when the pattern does not match there.  After the plain label the
\* run of dashes gives one dash back to (.+) when nothing follows it.
captureAt(s, i, label) ==
  LET afterBold == i + Len(label) + 4
      dashes == skipSpaces(s, i + Len(label))
      afterDashes == dashes + dashRun(s, dashes)
  IN IF boldAt(s, i, label) /\ skipSpaces(s, afterBold) <= Len(s)
     THEN dropFirst(s, skipSpaces(s, afterBold) - 1)
     ELSE IF plainAt(s, i, label)
     THEN IF skipSpaces(s, afterDashes) <= Len(s) THEN dropFirst(s, skipSpaces(s, afterDashes) - 1)
          ELSE IF afterDashes <= Len(s) THEN dropFirst(s, Len(s) - 1)
          ELSE IF dashRun(s, dashes) >= 2 THEN <<"-">>
          ELSE <<>>
     ELSE <<>>

\* line.match(/(?:\*\*Label:\*\*|Label:\s*-+)\s*(.+)/i): the group of the
\* leftmost match, <<>> when there is no match
capture(s, label) ==
  LET hits == {i \in 1..Len(s) : captureAt(s, i, label) # <<>>}
  IN IF hits = {} THEN <<>> ELSE captureAt(s, CHOOSE i \in hits : \A j \in hits : i <= j, label)

\* position of the colon that ends (.+?) in /^(.+?):\s*-+/, 0 without a match
customColon(line) ==
  LET hits == {c \in 2..Len(line) : line[c] = ":" /\ dashRun(line, skipSpaces(line, c + 1)) >= 1}
  IN IF hits = {} THEN 0 ELSE CHOOSE c \in hits : \A j \in hits : c <= j

\* text.split(/(?=\*\*Question:\*\*|Question:\s*-+)/i): a cut before every
\* position but the first at which the lookahead matches
splitBlocks(text) ==
  LET cuts == {q \in 2..Len(text) : boldAt(text, q, L_Question) \/ plainAt(text, q, L_Question)}
      starts == {1} \cup cuts
      EndOf(b) == IF \E c \in cuts : c > b
                  THEN (CHOOSE c \in cuts : c > b /\ \A d \in cuts : d > b => c <= d) - 1
                  ELSE Len(text)
      Nth(n) == CHOOSE b \in starts : Cardinality({c \in starts : c < b}) = n - 1
  IN [n \in 1..Cardinality(starts) |-> SubSeq(text, Nth(n), EndOf(Nth(n)))]

\* the findIndex of both answer-text resolutions
answerTextIndex(options, answerText) ==
  findIndex({i \in 1..Len(options) :
               \/ includes(toLowerCase(options[i]), toLowerCase(answerText))
               \/ includes(toLowerCase(answerText), toLowerCase(options[i]))})

\* a pending custom section is pushed
flushSection(st) ==
  IF st.currentSection = "additional" /\ st.currentSectionTitle # <<>> /\ st.currentSectionContent # <<>>
  THEN Append(st.additionalSections,
              [title |-> st.currentSectionTitle, content |-> trim(st.currentSectionContent)])
  ELSE st.additionalSections

\* line.replace(/^-\s*/, "").trim(), then bold markup and glyph removed
optionTextOf(line) ==
  trim(removeAll(removeAll(trim(dropFirst(line, skipSpaces(line, 2) - 1)), BOLD), <<GLYPH>>))

appendLine(acc, line) == acc \o (IF acc # <<>> THEN <<NL>> ELSE <<>>) \o line

BlockStart ==
  [question |-> <<>>, options |-> <<>>, correctAnswer |-> 0, explanation |-> <<>>,
   additionalSections |-> <<>>, currentSection |-> "",
   currentSectionTitle |-> <<>>, currentSectionContent |-> <<>>]

\* one iteration of the loop over the lines of a block
blockStep(st, line) ==
  IF hasLabel(line, L_Question)
  THEN [st EXCEPT !.currentSection = "question",
                  !.question = IF capture(line, L_Question) # <<>>
                               THEN trim(removeAll(capture(line, L_Question), BOLD)) ELSE @]
  ELSE IF hasLabel(line, L_Options)
  THEN [st EXCEPT !.additionalSections = flushSection(st), !.currentSection = "options"]
  ELSE IF hasLabel(line, L_CorrectAnswer)
  THEN LET answerText == trim(removeAll(capture(line, L_CorrectAnswer), BOLD))
           matchingIndex == answerTextIndex(st.options, answerText)
       IN [st EXCEPT !.currentSection = "answer",
                     !.correctAnswer = IF capture(line, L_CorrectAnswer) # <<>> /\ matchingIndex # -1
                                       THEN matchingIndex ELSE @]
  ELSE IF hasLabel(line, L_Reasoning)
  THEN [st EXCEPT !.currentSection = "reasoning",
                  !.explanation = IF capture(line, L_Reasoning) # <<>>
                                  THEN trim(capture(line, L_Reasoning)) ELSE @]
  ELSE IF customColon(line) > 0
  THEN [st EXCEPT !.additionalSections = flushSection(st),
                  !.currentSection = "additional",
                  !.currentSectionTitle = trim(SubSeq(line, 1, customColon(line) - 1)),
                  !.currentSectionContent = <<>>]
  ELSE IF st.currentSection = "question" /\ st.question = <<>>
  THEN [st EXCEPT !.question = trim(removeAll(line, BOLD))]
  ELSE IF st.currentSection = "options"
  THEN IF startsWith(line, <<"-">>)
       THEN [st EXCEPT !.options = Append(@, optionTextOf(line)),
                       !.correctAnswer = IF hasGlyph(line) THEN Len(st.options) ELSE @]
       ELSE st
  ELSE IF st.currentSection = "answer"
  THEN LET matchingIndex == answerTextIndex(st.options, trim(removeAll(line, BOLD)))
       IN [st EXCEPT !.correctAnswer = IF matchingIndex # -1 THEN matchingIndex ELSE @]
  ELSE IF st.currentSection = "reasoning"
  THEN [st EXCEPT !.explanation = appendLine(@, line)]
  ELSE IF st.currentSection = "additional"
  THEN [st EXCEPT !.currentSectionContent = appendLine(@, line)]
  ELSE st

RECURSIVE blockLoop(_, _)
blockLoop(st, lines) ==
  IF lines = <<>> THEN st ELSE blockLoop(blockStep(st, Head(lines)), Tail(lines))

\* the callback of questionBlocks.forEach: <<>> or the one question of the block
parseBlock(block, index) ==
  IF ~hasLabel(block, L_Question) THEN <<>>
  ELSE LET st == blockLoop(BlockStart, trimmedLines(block))
           sections == flushSection(st)
       IN IF st.question # <<>> /\ Len(st.options) > 0
          THEN << MCQQuestion(index, JStr(st.question), st.options, st.correctAnswer,
                              IF st.explanation # <<>> THEN JStr(st.explanation) ELSE Undefined,
                              IF Len(sections) > 0 THEN JArr(sections) ELSE Undefined) >>
          ELSE <<>>

\* faulty variant: the first block without a question ends the loop
RECURSIVE concatBlocks_stopAtFailure(_, _)
concatBlocks_stopAtFailure(blocks, index) ==
  IF index >= Len(blocks) THEN <<>>
  ELSE IF parseBlock(blocks[index + 1], index) = <<>> THEN <<>>
  ELSE parseBlock(blocks[index + 1], index) \o concatBlocks_stopAtFailure(blocks, index + 1)

RECURSIVE concatBlocks(_, _)
concatBlocks(blocks, index) ==
  IF index >= Len(blocks) THEN <<>>
  ELSE parseBlock(blocks[index + 1], index) \o concatBlocks(blocks, index + 1)

parseStructuredFormat(text) ==
  concatBlocks(SelectSeq(splitBlocks(text), NonBlank), 0)

\* ------------------------------------------------------------------------
\* Text-format parsing: structured first, line patterns as the fallback
\* ------------------------------------------------------------------------
\* faulty variant: the line-pattern questions follow the structured ones
parseMCQText_mixed(text, now) == parseStructuredFormat(text) \o parseLinePattern(text, now)

parseMCQText(text, now) ==
  LET structuredQuestions == parseStructuredFormat(text)
  IN IF Len(structuredQuestions) > 0 THEN structuredQuestions ELSE parseLinePattern(text, now)

\* ------------------------------------------------------------------------
\* JSON.parse on the JSON subset of the input texts: null, true, false,
\* integers, strings without escapes, arrays, objects, blanks and newlines
\* between tokens.  A result with ok = FALSE is a SyntaxError.
\* ------------------------------------------------------------------------
QUOTE == "\""
T_null == <<"n", "u", "l", "l">>
T_true == <<"t", "r", "u", "e">>
T_false == <<"f", "a", "l", "s", "e">>

SyntaxError == [ok |-> FALSE]
Parsed(v, next) == [ok |-> TRUE, v |-> v, next |-> next]

DigitValue(c) ==
  CASE c = "0" -> 0 [] c = "1" -> 1 [] c = "2" -> 2 [] c = "3" -> 3 [] c = "4" -> 4
    [] c = "5" -> 5 [] c = "6" -> 6 [] c = "7" -> 7 [] c = "8" -> 8 [] c = "9" -> 9

RECURSIVE digitsValue(_, _, _)
digitsValue(s, i, n) == IF n = 0 THEN 0 ELSE 10 * digitsValue(s, i, n - 1) + DigitValue(s[i + n - 1])

\* an integer literal at position i: -? (0 | [1-9][0-9]*), not followed by a
\* fraction or an exponent
parseNumber(s, i) ==
  LET neg == i <= Len(s) /\ s[i] = "-"
      d == IF neg THEN i + 1 ELSE i
      n == digitRun(s, d)
  IN IF n = 0 \/ (n > 1 /\ s[d] = "0") THEN SyntaxError
     ELSE IF d + n <= Len(s) /\ s[d + n] \in {".", "e", "E"} THEN SyntaxError
     ELSE Parsed(JNum(IF neg THEN 0 - digitsValue(s, d, n) ELSE digitsValue(s, d, n)), d + n)

\* a string literal at position i (s[i] is the opening quote); a raw newline
\* inside a string is a syntax error
parseString(s, i) ==
  LET closes == {j \in (i + 1)..Len(s) : s[j] = QUOTE}
  IN IF closes = {} THEN SyntaxError
     ELSE LET j == CHOOSE j \in closes : \A k \in closes : j <= k
          IN IF \E k \in (i + 1)..(j - 1) : s[k] = NL THEN SyntaxError
             ELSE Parsed(JStr(SubSeq(s, i + 1, j - 1)), j + 1)

\* a repeated key keeps its first position and takes the last value
setProp(props, k, v) ==
  IF \E i \in 1..Len(props) : props[i].k = k
  THEN [i \in 1..Len(props) |-> IF props[i].k = k THEN Prop(k, v) ELSE props[i]]
  ELSE Append(props, Prop(k, v))

RECURSIVE parseValue(_, _), parseElements(_, _, _), parseMembers(_, _, _)

parseValue(s, i0) ==
  LET i == skipSpaces(s, i0)
  IN IF i > Len(s) THEN SyntaxError
     ELSE IF MatchAt(s, i, T_null) THEN Parsed(JNull, i + 4)
     ELSE IF MatchAt(s, i, T_true) THEN Parsed(JBool(TRUE), i + 4)
     ELSE IF MatchAt(s, i, T_false) THEN Parsed(JBool(FALSE), i + 5)
     ELSE IF s[i] = QUOTE THEN parseString(s, i)
     ELSE IF s[i] = "-" \/ IsDigit(s[i]) THEN parseNumber(s, i)
     ELSE IF s[i] = "["
          THEN LET j == skipSpaces(s, i + 1)
               IN IF j <= Len(s) /\ s[j] = "]" THEN Parsed(JArr(<<>>), j + 1)
                  ELSE parseElements(s, i + 1, <<>>)
     ELSE IF s[i] = "{"
          THEN LET j == skipSpaces(s, i + 1)
               IN IF j <= Len(s) /\ s[j] = "}" THEN Parsed(JObj(<<>>), j + 1)
                  ELSE parseMembers(s, i + 1, <<>>)
     ELSE SyntaxError

\* the elements of an array from position i on, acc the ones read so far
parseElements(s, i, acc) ==
  LET e == parseValue(s, i)
  IN IF ~e.ok THEN SyntaxError
     ELSE LET j == skipSpaces(s, e.next)
          IN IF j > Len(s) THEN SyntaxError
             ELSE IF s[j] = "]" THEN Parsed(JArr(Append(acc, e.v)), j + 1)
             ELSE IF s[j] = "," THEN parseElements(s, j + 1, Append(acc, e.v))
             ELSE SyntaxError

\* the members of an object from position i on, acc the ones read so far
parseMembers(s, i, acc) ==
  LET k == skipSpaces(s, i)
  IN IF k > Len(s) \/ s[k] # QUOTE THEN SyntaxError
     ELSE LET key == parseString(s, k)
          IN IF ~key.ok THEN SyntaxError
             ELSE LET c == skipSpaces(s, key.next)
                  IN IF c > Len(s) \/ s[c] # ":" THEN SyntaxError
                     ELSE LET e == parseValue(s, c + 1)
                          IN IF ~e.ok THEN SyntaxError
                             ELSE LET j == skipSpaces(s, e.next)
                                      props == setProp(acc, key.v.s, e.v)
                                  IN IF j > Len(s) THEN SyntaxError
                                     ELSE IF s[j] = "}" THEN Parsed(JObj(props), j + 1)
                                     ELSE IF s[j] = "," THEN parseMembers(s, j + 1, props)
                                     ELSE SyntaxError

JSONParse(text) ==
  LET r == parseValue(text, 1)
  IN IF r.ok /\ skipSpaces(text, r.next) > Len(text) THEN r ELSE SyntaxError

\* ------------------------------------------------------------------------
\* State
\* ------------------------------------------------------------------------
VARIABLES
  input,              \* the argument of the parser call or handler run last
  output,             \* its outcome: a thrown exception or the returned questions
  pc,                 \* "call" before a parser call, "idle" between handlers, "done" after
  ran,                \* the parser functions run by the last call or handler
  clock,              \* the value Date.now() returns
  addQuestionsText,   \* useState: text of the Add Questions panel
  rawText,            \* useState: text of the import screen
  parsedQuestions,    \* useState
  uploadError,        \* useState: a message or "null"
  uploadProgress,     \* useState
  isPreviewMode,      \* useState
  showAddQuestions,   \* useState
  isUploading,        \* useState
  upload,             \* the locals of the handleFileUpload call awaiting a file read
  existingTest,       \* prop: the test being edited or NoTest
  calls,              \* history: the parser calls made so far, with argument, clock and result
  editingQuestion,    \* useState of MCQParser: the id of the question in edit mode or NoQuestion
  editors,            \* the useState values of the mounted QuestionEditor components
  activeTest,         \* useState of HomePage: the test taken or NoTest
  studyNotes,         \* useState of HomePage
  randomizeQuestions, \* useState of TestInterface, as are the eight below
  randomizeOptions,
  testStarted,
  shuffledQuestions,
  questionMapping,
  currentQuestionIndex,
  results,
  showFeedback,
  isTestComplete

parserVars == <<input, output, pc, ran, clock>>

uiVars ==
  <<addQuestionsText, rawText, parsedQuestions, uploadError, uploadProgress,
    isPreviewMode, showAddQuestions, isUploading, upload, existingTest>>

editorVars == <<editingQuestion, editors>>

testVars ==
  <<activeTest, studyNotes, randomizeQuestions, randomizeOptions, testStarted, shuffledQuestions,
    questionMapping, currentQuestionIndex, results, showFeedback, isTestComplete>>

vars == <<parserVars, uiVars, calls, editorVars, testVars>>

NoTest == [t |-> "null"]

\* no handleFileUpload call is awaiting a file read
NoUpload == [fileArray |-> <<>>, i |-> 0, progressArray |-> <<>>, allNewQuestions |-> <<>>]

\* editingQuestion when it is null
NoQuestion == 0 - 1

\* no editor is in edit mode
NoEditors ==
  /\ editingQuestion = NoQuestion
  /\ editors = <<>>

\* TestInterface as constructed (lines 514-526) for the test taken
InitTest(test) ==
  /\ activeTest = test
  /\ studyNotes = <<>>
  /\ randomizeQuestions = FALSE
  /\ randomizeOptions = FALSE
  /\ testStarted = FALSE
  /\ shuffledQuestions = <<>>
  /\ questionMapping = <<>>
  /\ currentQuestionIndex = 0
  /\ results = <<>>
  /\ showFeedback = FALSE
  /\ isTestComplete = FALSE

\* MCQParser as constructed (lines 37-62)
InitParser(test) ==
  /\ existingTest = test
  /\ addQuestionsText = <<>>
  /\ rawText = <<>>
  /\ parsedQuestions = (IF Truthy(test) THEN test.questions ELSE <<>>)
  /\ uploadError = "null"
  /\ uploadProgress = <<>>
  /\ isPreviewMode = Truthy(test)
  /\ showAddQuestions = FALSE
  /\ isUploading = FALSE
  /\ upload = NoUpload

\* the parser on its own: no editor is open and no test is taken
InitUI(test) ==
  /\ InitParser(test)
  /\ NoEditors
  /\ InitTest(NoTest)

SeqsUpTo(S, n) == UNION {[1..k -> S] : k \in 0..n}


\* ------------------------------------------------------------------------
\* Input texts
\* ------------------------------------------------------------------------
\* 1. Q
LP_Numbered == <<"1", ".", " ", "Q">>

\* q2 R
LP_QLabel == <<"q", "2", " ", "R">>

\* A. x
LP_OptionA == <<"A", ".", " ", "x">>

\* b) y *
LP_OptionStar == <<"b", ")", " ", "y", " ", "*">>

\* C. z✓
LP_OptionTick == <<"C", ".", " ", "z", TICK>>

\* Answer: B
LP_Answer == <<"A", "n", "s", "w", "e", "r", ":", " ", "B">>

\* correct: d
LP_Correct == <<"c", "o", "r", "r", "e", "c", "t", ":", " ", "d">>

\* Why: e
LP_Why == <<"W", "h", "y", ":", " ", "e">>

\* noise
LP_Noise == <<"n", "o", "i", "s", "e">>

\* Question:-- Q
SH_Question == <<"Q", "u", "e", "s", "t", "i", "o", "n", ":", "-", "-", " ", "Q">>

\* **Options:**
SH_Options == <<"*", "*", "O", "p", "t", "i", "o", "n", "s", ":", "*", "*">>

\* - a
SH_OptionA == <<"-", " ", "a">>

\* - **b** ✅
SH_OptionMarked == <<"-", " ", "*", "*", "b", "*", "*", " ", GLYPH>>

\* Correct Answer:-- a
SH_Answer == <<
    "C", "o", "r", "r", "e", "c", "t", " ", "A", "n", "s", "w", "e", "r", ":", "-", "-", " ",
    "a" >>

\* Note:-- n
SH_Custom == <<"N", "o", "t", "e", ":", "-", "-", " ", "n">>

\* Reasoning:-- r
SH_Reasoning == <<"R", "e", "a", "s", "o", "n", "i", "n", "g", ":", "-", "-", " ", "r">>

\* **Correct Answer:**
SH_AnswerBold == <<
    "*", "*", "C", "o", "r", "r", "e", "c", "t", " ", "A", "n", "s", "w", "e", "r", ":",
    "*", "*" >>

\* Tip:-
SH_Tip == <<"T", "i", "p", ":", "-">>

\* **Question:**
SH_QuestionBold == <<"*", "*", "Q", "u", "e", "s", "t", "i", "o", "n", ":", "*", "*">>

\* Question:-
SH_QuestionDash == <<"Q", "u", "e", "s", "t", "i", "o", "n", ":", "-">>

\* Question:----
SH_QuestionDashes == <<"Q", "u", "e", "s", "t", "i", "o", "n", ":", "-", "-", "-", "-">>

\* **W**
SH_Text == <<"*", "*", "W", "*", "*">>

\* Reasoning:-
SH_ReasoningDash == <<"R", "e", "a", "s", "o", "n", "i", "n", "g", ":", "-">>

\* Reasoning:---
SH_ReasoningDashes == <<"R", "e", "a", "s", "o", "n", "i", "n", "g", ":", "-", "-", "-">>

\* **Reasoning:**
SH_ReasoningBold == <<"*", "*", "R", "e", "a", "s", "o", "n", "i", "n", "g", ":", "*", "*">>

\* Correct Answer:-
SH_AnswerDash == <<
    "C", "o", "r", "r", "e", "c", "t", " ", "A", "n", "s", "w", "e", "r", ":", "-" >>

\* a
SH_PlainA == <<"a">>

\* **b**
SH_BoldB == <<"*", "*", "b", "*", "*">>

\* null
J_Null == <<"n", "u", "l", "l">>

\* 7
J_Number == <<"7">>

\* "x"
J_String == <<QUOTE, "x", QUOTE>>

\* []
J_EmptyArray == <<"[", "]">>

\* {}
J_EmptyObject == <<"{", "}">>

\* {"question":"Q","options":["a","b"]}
J_Item == <<
    "{", QUOTE, "q", "u", "e", "s", "t", "i", "o", "n", QUOTE, ":", QUOTE, "Q", QUOTE, ",",
    QUOTE, "o", "p", "t", "i", "o", "n", "s", QUOTE, ":", "[", QUOTE, "a", QUOTE, ",", QUOTE,
    "b", QUOTE, "]", "}" >>

\* {"question": "Q", "options": ["a", "b"], "correct_answer": "b"}
J_ItemAnswer == <<
    "{", QUOTE, "q", "u", "e", "s", "t", "i", "o", "n", QUOTE, ":", " ", QUOTE, "Q", QUOTE,
    ",", " ", QUOTE, "o", "p", "t", "i", "o", "n", "s", QUOTE, ":", " ", "[", QUOTE, "a",
    QUOTE, ",", " ", QUOTE, "b", QUOTE, "]", ",", " ", QUOTE, "c", "o", "r", "r", "e", "c",
    "t", "_", "a", "n", "s", "w", "e", "r", QUOTE, ":", " ", QUOTE, "b", QUOTE, "}" >>

\* {"question":"Q","options":[]}
J_ItemNoOptions == <<
    "{", QUOTE, "q", "u", "e", "s", "t", "i", "o", "n", QUOTE, ":", QUOTE, "Q", QUOTE, ",",
    QUOTE, "o", "p", "t", "i", "o", "n", "s", QUOTE, ":", "[", "]", "}" >>

\* {"question":"Q","options":["a",5]}
J_ItemBadOption == <<
    "{", QUOTE, "q", "u", "e", "s", "t", "i", "o", "n", QUOTE, ":", QUOTE, "Q", QUOTE, ",",
    QUOTE, "o", "p", "t", "i", "o", "n", "s", QUOTE, ":", "[", QUOTE, "a", QUOTE, ",", "5",
    "]", "}" >>

\* [{"question":"Q","options":["a","b ✅"]},7]
J_Batch == <<
    "[", "{", QUOTE, "q", "u", "e", "s", "t", "i", "o", "n", QUOTE, ":", QUOTE, "Q", QUOTE,
    ",", QUOTE, "o", "p", "t", "i", "o", "n", "s", QUOTE, ":", "[", QUOTE, "a", QUOTE, ",",
    QUOTE, "b", " ", GLYPH, QUOTE, "]", "}", ",", "7", "]" >>

\* [null,{"question":"Q","options":["a","b"]}]
J_BatchNull == <<
    "[", "n", "u", "l", "l", ",", "{", QUOTE, "q", "u", "e", "s", "t", "i", "o", "n", QUOTE,
    ":", QUOTE, "Q", QUOTE, ",", QUOTE, "o", "p", "t", "i", "o", "n", "s", QUOTE, ":", "[",
    QUOTE, "a", QUOTE, ",", QUOTE, "b", QUOTE, "]", "}", "]" >>

\* {"questions":[{"question":"x","options":["a"]}]}
J_Wrapper == <<
    "{", QUOTE, "q", "u", "e", "s", "t", "i", "o", "n", "s", QUOTE, ":", "[", "{", QUOTE, "q",
    "u", "e", "s", "t", "i", "o", "n", QUOTE, ":", QUOTE, "x", QUOTE, ",", QUOTE, "o", "p",
    "t", "i", "o", "n", "s", QUOTE, ":", "[", QUOTE, "a", QUOTE, "]", "}", "]", "}" >>

\* [{"question":"Q","options":["a","b"]},]
J_TrailingComma == <<
    "[", "{", QUOTE, "q", "u", "e", "s", "t", "i", "o", "n", QUOTE, ":", QUOTE, "Q", QUOTE,
    ",", QUOTE, "o", "p", "t", "i", "o", "n", "s", QUOTE, ":", "[", QUOTE, "a", QUOTE, ",",
    QUOTE, "b", QUOTE, "]", "}", ",", "]" >>

\* {"question":"Q"
J_Unclosed == <<
    "{", QUOTE, "q", "u", "e", "s", "t", "i", "o", "n", QUOTE, ":", QUOTE, "Q", QUOTE >>

\* [null, "Question:-- Q",\n"Options:--",\n-1,\n-2]
J_Lines == <<
    "[", "n", "u", "l", "l", ",", " ", QUOTE, "Q", "u", "e", "s", "t", "i", "o", "n", ":", "-",
    "-", " ", "Q", QUOTE, ",", NL, QUOTE, "O", "p", "t", "i", "o", "n", "s", ":", "-", "-",
    QUOTE, ",", NL, "-", "1", ",", NL, "-", "2", "]" >>

\* [null,\n1 ,2]
J_NumberedLines == <<"[", "n", "u", "l", "l", ",", NL, "1", " ", ",", "2", "]">>

\* [{"question":"Q","options":["a"]},{"question":"x","options":["b"]}]
J_Pair == <<
    "[", "{", QUOTE, "q", "u", "e", "s", "t", "i", "o", "n", QUOTE, ":", QUOTE, "Q", QUOTE,
    ",", QUOTE, "o", "p", "t", "i", "o", "n", "s", QUOTE, ":", "[", QUOTE, "a", QUOTE, "]",
    "}", ",", "{", QUOTE, "q", "u", "e", "s", "t", "i", "o", "n", QUOTE, ":", QUOTE, "x",
    QUOTE, ",", QUOTE, "o", "p", "t", "i", "o", "n", "s", QUOTE, ":", "[", QUOTE, "b",
    QUOTE, "]", "}", "]" >>

\* lines.join("\n")
RECURSIVE joinLines(_)
joinLines(lines) ==
  IF lines = <<>> THEN <<>>
  ELSE IF Len(lines) = 1 THEN lines[1]
  ELSE lines[1] \o <<NL>> \o joinLines(Tail(lines))

LinePatternLines ==
  { LP_Numbered, LP_QLabel, LP_OptionA, LP_OptionStar, LP_OptionTick, LP_Answer, LP_Correct, LP_Why, LP_Noise }

HeaderLines ==
  { SH_Question, SH_Options, SH_OptionA, SH_OptionMarked, SH_Answer, SH_Custom }

LinePatternTexts == { joinLines(ls) : ls \in SeqsUpTo(LinePatternLines, MaxLines) }

HeaderTexts == { joinLines(ls) : ls \in SeqsUpTo(HeaderLines, MaxHeaderLines) }

ValidJSONTexts ==
  { J_Null, J_Number, J_String, J_EmptyArray, J_EmptyObject, J_Item, J_ItemAnswer, J_ItemNoOptions,
    J_ItemBadOption, J_Batch, J_BatchNull, J_Wrapper, J_Pair, J_Lines, J_NumberedLines }

BrokenJSONTexts == { J_TrailingComma, J_Unclosed }

\* one complete question block followed by further lines
TailLines ==
  { SH_Custom, SH_Tip, SH_OptionA, SH_Answer, SH_AnswerBold, SH_Reasoning, SH_Options, SH_Question }

BlockTexts ==
  { joinLines(<<SH_Question, SH_Options, SH_OptionA, SH_OptionMarked>> \o tail) :
      tail \in SeqsUpTo(TailLines, MaxTailLines) }

\* blocks whose Question label carries no text of its own
BareLabelTexts ==
  { joinLines(<<label>> \o rest) :
      label \in {SH_QuestionBold, SH_QuestionDash, SH_QuestionDashes},
      rest \in { <<SH_Text, SH_Options, SH_OptionA>>,
                 <<SH_Text, SH_OptionA, SH_Options, SH_OptionMarked>>,
                 <<SH_Options, SH_OptionA>> } }

\* one complete question block, a Reasoning label and the lines after it
ReasoningTexts ==
  { joinLines(<<SH_Question, SH_Options, SH_OptionA, SH_OptionMarked, label>> \o rest) :
      label \in {SH_Reasoning, SH_ReasoningDash, SH_ReasoningDashes, SH_ReasoningBold},
      rest \in SeqsUpTo({LP_Noise, SH_Text}, 2) }

\* one complete question block, a Correct Answer label and the lines after it
AnswerTexts ==
  { joinLines(<<SH_Question, SH_Options, SH_OptionA, SH_OptionMarked, label>> \o rest) :
      label \in {SH_Answer, SH_AnswerDash, SH_AnswerBold},
      rest \in SeqsUpTo({SH_BoldB, LP_Noise, SH_PlainA}, 2) }

\* up to MaxBlocks blocks one after the other: complete ones, one without
\* options, one without a question text, and lines without a Question label
BlockKinds ==
  { <<SH_Question, SH_Options, SH_OptionA, SH_OptionMarked>>,
    <<SH_QuestionBold, SH_Text, SH_Options, SH_OptionA, SH_Answer>>,
    <<SH_Question, SH_Custom>>,
    <<SH_QuestionBold, SH_Options, SH_OptionA>>,
    <<LP_Noise, SH_Options, SH_OptionA>> }

MultiBlockTexts ==
  { joinLines([i \in 1..Len(bs) |-> joinLines(bs[i])]) : bs \in SeqsUpTo(BlockKinds, MaxBlocks) }

\* texts in which both text conventions occur
MixedTexts ==
  { joinLines(<<LP_Numbered, LP_OptionA, SH_Question, SH_Options, SH_OptionA>>),
    joinLines(<<SH_Question, SH_Options, SH_OptionMarked, LP_Numbered, LP_OptionA, LP_OptionStar>>) }

TextInputs ==
  LinePatternTexts \cup HeaderTexts \cup BlockTexts \cup BareLabelTexts \cup ReasoningTexts
  \cup AnswerTexts \cup MultiBlockTexts \cup MixedTexts
  \cup ValidJSONTexts \cup BrokenJSONTexts

Clock == {1000, 2000}

\* ------------------------------------------------------------------------
\* Decoded JSON inputs of the extractor
\* ------------------------------------------------------------------------
T_Q == <<"Q">>
T_a == <<"a">>
T_b == <<"b">>
T_x == <<"x">>

OptionTexts ==
  { <<"a">>, <<"a", "b">>, <<"B">>, <<" ", "b">>, <<>>,
    <<GLYPH, "a">>, <<"b", " ", GLYPH>> }

AnswerValues ==
  { Undefined, JStr(<<>>), JStr(<<"a">>), JStr(<<"A", "B">>), JStr(<<" ", "b", " ">>),
    JStr(<<"c">>), JStr(<<" ">>), JNum(5) }

\* {question, options[, correct_answer]}; an Undefined answer is an absent property
Item(question, options, answer) ==
  JObj(<<Prop(K_question, question), Prop(K_options, options)>>
       \o (IF answer = Undefined THEN <<>> ELSE <<Prop(K_correct_answer, answer)>>))

StrArr(texts) == JArr([i \in 1..Len(texts) |-> JStr(texts[i])])

ItemInputs ==
  { Item(JStr(T_Q), StrArr(opts), ans) : opts \in SeqsUpTo(OptionTexts, MaxOpts), ans \in AnswerValues }

BatchElements ==
  { JNull, JNum(7), JStr(T_x),
    Item(JStr(T_Q), StrArr(<<T_a, T_b>>), JStr(T_b)),
    Item(JStr(T_x), StrArr(<<T_a, <<"b", GLYPH>>, T_x>>), Undefined),
    JObj(<<Prop(K_question, JStr(T_Q))>>),
    JObj(<<Prop(K_options, StrArr(<<T_a, T_b>>))>>),
    Item(JStr(T_Q), JStr(<<"a", "b">>), Undefined),
    Item(JStr(<<>>), StrArr(<<T_a, T_b>>), Undefined),
    Item(JNum(3), StrArr(<<T_a, T_b>>), Undefined),
    Item(JStr(T_Q), JArr(<<JStr(T_a), JNum(5)>>), Undefined),
    Item(JStr(T_Q), StrArr(<<>>), Undefined) }

Batches == SeqsUpTo(BatchElements, MaxBatch)

\* properties an item carries besides question and options
ExtraProps ==
  { Prop(K_title, JStr(T_x)), Prop(K_reasoning, JStr(T_x)),
    Prop(K_context_note, JStr(<<"n">>)), Prop(K_context_note, JStr(<<" ">>)),
    Prop(K_explanation, JStr(<<"e">>)),
    Prop(K_note, JNum(5)), Prop(K_note, JStr(<<" ", "m", " ">>)) }

DistinctKeys(props) == \A i, j \in 1..Len(props) : i # j => props[i].k # props[j].k

\* items with extra properties before or after question and options
SectionItems ==
  LET core == <<Prop(K_question, JStr(T_Q)), Prop(K_options, StrArr(<<T_a, T_b>>))>>
  IN UNION { {JObj(core \o extras), JObj(extras \o core)} :
               extras \in {e \in SeqsUpTo(ExtraProps, MaxProps) : DistinctKeys(e)} }

OtherInputs ==
  { JNull, JNum(0), JNum(7), JStr(T_x), JBool(TRUE), JBool(FALSE), JObj(<<>>),
    JObj(<<Prop(K_questions, JStr(T_x))>>), JObj(<<Prop(K_questions, JNull)>>) }

JSONInputs ==
  ItemInputs \cup SectionItems \cup OtherInputs
  \cup { JArr(b) : b \in Batches }
  \cup { JObj(<<Prop(K_questions, JArr(b))>>) : b \in Batches }

\* ------------------------------------------------------------------------
\* The extractor applied to one decoded JSON value
\* ------------------------------------------------------------------------
InitJSON ==
  /\ input \in JSONInputs
  /\ output = ReturnedList(<<>>)
  /\ pc = "call"
  /\ ran = {}
  /\ clock \in Clock
  /\ calls = <<>>
  /\ InitUI(NoTest)

CallParseJSONFormat ==
  /\ pc = "call"
  /\ output' = parseJSONFormat(input)
  /\ ran' = {"parseJSONFormat"}
  /\ pc' = "done"
  /\ UNCHANGED <<input, clock, uiVars, calls, editorVars, testVars>>

NextJSON == CallParseJSONFormat

SpecJSON == InitJSON /\ [][NextJSON]_vars

\* ------------------------------------------------------------------------
\* The text-format parsers applied to one text
\* ------------------------------------------------------------------------
InitText ==
  /\ input \in TextInputs
  /\ output = ReturnedList(<<>>)
  /\ pc = "call"
  /\ ran = {}
  /\ clock \in Clock
  /\ calls = <<>>
  /\ InitUI(NoTest)

\* the functions parseMCQText runs on text
textParsersRun(text) ==
  IF Len(parseStructuredFormat(text)) > 0
  THEN {"parseMCQText", "parseStructuredFormat"}
  ELSE {"parseMCQText", "parseStructuredFormat", "linePattern"}

CallParseMCQText ==
  /\ pc = "call"
  /\ output' = ReturnedList(parseMCQText(input, clock))
  /\ ran' = textParsersRun(input)
  /\ pc' = "done"
  /\ UNCHANGED <<input, clock, uiVars, calls, editorVars, testVars>>

CallParseStructuredFormat ==
  /\ pc = "call"
  /\ output' = ReturnedList(parseStructuredFormat(input))
  /\ ran' = {"parseStructuredFormat"}
  /\ pc' = "done"
  /\ UNCHANGED <<input, clock, uiVars, calls, editorVars, testVars>>

NextText == CallParseMCQText \/ CallParseStructuredFormat

SpecText == InitText /\ [][NextText]_vars

\* ------------------------------------------------------------------------
\* Several parser calls, one after the other, while the clock advances
\* ------------------------------------------------------------------------
Parsers == {"parseJSONFormat", "parseStructuredFormat", "parseMCQText"}

CallInputs(fn) ==
  IF fn = "parseJSONFormat"
  THEN { JNull, JArr(<<Item(JStr(T_Q), StrArr(<<T_a, T_b>>), JStr(T_b)),
                      Item(JStr(T_x), StrArr(<<T_a, <<"b", GLYPH>>, T_x>>), Undefined)>>) }
  ELSE { joinLines(<<LP_Numbered, LP_OptionA, LP_QLabel, LP_OptionStar>>),
         joinLines(<<SH_Question, SH_Options, SH_OptionA, SH_Question, SH_Options, SH_OptionMarked>>),
         LP_Noise }

\* faulty variant: the structured parser numbers its questions from the clock
callResult_clockIds(fn, arg, now) ==
  CASE fn = "parseJSONFormat" -> parseJSONFormat(arg)
    [] fn = "parseStructuredFormat" ->
         ReturnedList([k \in 1..Len(parseStructuredFormat(arg)) |->
                         [parseStructuredFormat(arg)[k] EXCEPT !.id = now + k]])
    [] fn = "parseMCQText" -> ReturnedList(parseMCQText(arg, now))

\* the outcome of fn(arg) when Date.now() is now
callResult(fn, arg, now) ==
  CASE fn = "parseJSONFormat" -> parseJSONFormat(arg)
    [] fn = "parseStructuredFormat" -> ReturnedList(parseStructuredFormat(arg))
    [] fn = "parseMCQText" -> ReturnedList(parseMCQText(arg, now))

InitCalls ==
  /\ input = <<>>
  /\ output = ReturnedList(<<>>)
  /\ pc = "idle"
  /\ ran = {}
  /\ clock \in Clock
  /\ calls = <<>>
  /\ InitUI(NoTest)

Call ==
  /\ Len(calls) < MaxCalls
  /\ \E fn \in Parsers : \E arg \in CallInputs(fn) :
       /\ input' = arg
       /\ output' = callResult(fn, arg, clock)
       /\ ran' = (IF fn = "parseMCQText" THEN textParsersRun(arg) ELSE {fn})
       /\ calls' = Append(calls, [fn |-> fn, input |-> arg, now |-> clock,
                                  output |-> callResult(fn, arg, clock)])
  /\ pc' = "done"
  /\ UNCHANGED <<clock, uiVars, editorVars, testVars>>

\* time passes between two calls
Tick ==
  /\ \E now \in Clock : now > clock /\ clock' = now
  /\ UNCHANGED <<input, output, pc, ran, uiVars, calls, editorVars, testVars>>

NextCalls == Call \/ Tick

SpecCalls == InitCalls /\ [][NextCalls]_vars

\* ------------------------------------------------------------------------
\* The dispatcher parseText inside the component
\* ------------------------------------------------------------------------
MSG_EnterText == "Please enter some text to parse."
MSG_NoneParsed == "No valid questions could be parsed from the text. Please check the format and try again."

SampleTest ==
  [t |-> "test", name |-> <<"T">>,
   questions |-> << MCQQuestion(0, JStr(<<"E">>), <<T_a, T_b>>, 1, Undefined, Undefined) >>]

\* texts typed or pasted into the two text areas
PanelTexts ==
  { <<" ">>, J_Null, J_Item, J_ItemNoOptions, J_BatchNull, J_TrailingComma, J_Lines,
    joinLines(<<LP_Numbered, LP_OptionA, LP_OptionStar, LP_Answer>>),
    joinLines(<<SH_Question, SH_Options, SH_OptionA, SH_OptionMarked>>),
    joinLines(<<LP_OptionA, LP_Answer, LP_Why>>),
    joinLines(<<LP_Numbered, LP_OptionA, LP_QLabel, LP_OptionStar>>),
    joinLines(<<SH_Question, SH_Options, SH_OptionA, SH_Question, SH_Options, SH_OptionMarked>>),
    J_Pair,
    LP_Noise }

ScreenTexts == { <<>>, joinLines(<<LP_Numbered, LP_OptionA, LP_OptionStar>>) }

\* lines 298-305: the questions and the parser functions run for text
dispatch(text, now) ==
  LET decoded == JSONParse(text)
      extracted == IF decoded.ok THEN parseJSONFormat(decoded.v) ELSE Thrown
  IN IF decoded.ok /\ ~extracted.threw
     THEN [questions |-> extracted.questions, ran |-> {"JSON.parse", "parseJSONFormat"}]
     ELSE [questions |-> parseMCQText(text, now),
           ran |-> {"JSON.parse"} \cup (IF decoded.ok THEN {"parseJSONFormat"} ELSE {})
                   \cup textParsersRun(text)]

InitDispatch ==
  /\ input = <<>>
  /\ output = ReturnedList(<<>>)
  /\ pc = "idle"
  /\ ran = {}
  /\ clock \in Clock
  /\ calls = <<>>
  /\ \E test \in {NoTest, SampleTest} : InitUI(test)

\* input, output, ran and pc describe the handler run last; the next event
\* starts from an idle component
Forget ==
  /\ input' = <<>>
  /\ output' = ReturnedList(<<>>)
  /\ pc' = "idle"
  /\ ran' = {}
  /\ UNCHANGED <<clock, calls, editorVars, testVars>>

\* onChange of the import screen's text area
SetRawText ==
  /\ ~isPreviewMode
  /\ \E text \in ScreenTexts : rawText' = text
  /\ Forget
  /\ UNCHANGED <<addQuestionsText, parsedQuestions, uploadError, uploadProgress,
                 isPreviewMode, showAddQuestions, isUploading, upload, existingTest>>

\* onChange of the Add Questions text area
SetAddQuestionsTextFrom(texts) ==
  /\ isPreviewMode /\ showAddQuestions
  /\ \E text \in texts : addQuestionsText' = text
  /\ Forget
  /\ UNCHANGED <<rawText, parsedQuestions, uploadError, uploadProgress,
                 isPreviewMode, showAddQuestions, isUploading, upload, existingTest>>

SetAddQuestionsText == SetAddQuestionsTextFrom(PanelTexts)

\* the Add Questions button of the preview
OpenAddQuestions ==
  /\ isPreviewMode
  /\ showAddQuestions' = TRUE
  /\ Forget
  /\ UNCHANGED <<addQuestionsText, rawText, parsedQuestions, uploadError, uploadProgress,
                 isPreviewMode, isUploading, upload, existingTest>>

\* the Cancel button of the Add Questions panel
CancelAddQuestions ==
  /\ isPreviewMode /\ showAddQuestions
  /\ showAddQuestions' = FALSE
  /\ uploadProgress' = <<>>
  /\ uploadError' = "null"
  /\ addQuestionsText' = <<>>
  /\ Forget
  /\ UNCHANGED <<rawText, parsedQuestions, isPreviewMode, isUploading, upload, existingTest>>

\* either button whose onClick is parseText is enabled
parseTextEnabled ==
  IF isPreviewMode THEN showAddQuestions /\ trim(addQuestionsText) # <<>>
  ELSE trim(rawText) # <<>>

ParseText ==
  /\ parseTextEnabled
  /\ input' = addQuestionsText
  /\ pc' = "done"
  /\ UNCHANGED <<clock, rawText, uploadProgress, isUploading, upload, existingTest, calls, editorVars, testVars>>
  /\ IF trim(addQuestionsText) = <<>>
     THEN /\ uploadError' = MSG_EnterText
          /\ output' = ReturnedList(<<>>)
          /\ ran' = {}
          /\ UNCHANGED <<addQuestionsText, parsedQuestions, isPreviewMode, showAddQuestions>>
     ELSE \E d \in {dispatch(addQuestionsText, clock)} :
             /\ output' = ReturnedList(d.questions)
             /\ ran' = d.ran
             /\ IF Len(d.questions) = 0
                THEN /\ uploadError' = MSG_NoneParsed
                     /\ UNCHANGED <<addQuestionsText, parsedQuestions, isPreviewMode, showAddQuestions>>
                ELSE /\ Len(parsedQuestions) <= MaxParsed
                     /\ parsedQuestions' = (IF Truthy(existingTest)
                                            THEN parsedQuestions \o d.questions ELSE d.questions)
                     /\ isPreviewMode' = (IF Truthy(existingTest) THEN isPreviewMode ELSE TRUE)
                     /\ showAddQuestions' = FALSE
                     /\ addQuestionsText' = <<>>
                     /\ uploadError' = "null"

NextDispatch ==
  \/ SetRawText
  \/ SetAddQuestionsText
  \/ OpenAddQuestions
  \/ CancelAddQuestions
  \/ ParseText

SpecDispatch == InitDispatch /\ [][NextDispatch]_vars

\* ------------------------------------------------------------------------
\* handleFileUpload: the file inputs of the import screen and of the Add
\* Questions panel
\* ------------------------------------------------------------------------
MSG_InvalidType == "Invalid file type. Only JSON files are supported."
MSG_TooLarge == "File too large. Maximum size is 5MB."
MSG_Empty == "File is empty."
MSG_NoQuestions == "No valid questions found in file."
MSG_InvalidJSON == "Invalid JSON format. Please check file syntax."
MSG_ReadFailed == "Failed to read file"

\* error.message of the TypeError that parseJSONFormat throws
MSG_TypeError == "TypeError.message"

MaxSize == 5 * 1024 * 1024

plural(n) == IF n # 1 THEN "s" ELSE ""

importedMessage(n) == "Successfully imported " \o ToString(n) \o " question" \o plural(n)

failedSummary(n) ==
  "Failed to process " \o ToString(n) \o " file" \o plural(n) \o ". Please check the errors above."

\* a selected file; readable tells whether the FileReader loads it
File(name, type, content, size, readable) ==
  [name |-> name, type |-> type, content |-> content, size |-> size, readable |-> readable]

JSONFile(name, content) == File(name, "application/json", content, Len(content), TRUE)

Files ==
  { File("notes.txt", "text/plain", J_Item, Len(J_Item), TRUE),
    File("large.json", "application/json", J_Item, MaxSize + 1, TRUE),
    File("unreadable.json", "application/json", J_Item, Len(J_Item), FALSE),
    JSONFile("blank.json", <<" ", NL>>),
    JSONFile("comma.json", J_TrailingComma),
    JSONFile("null.json", J_Null),
    JSONFile("none.json", J_EmptyArray),
    JSONFile("item.json", J_Item),
    JSONFile("pair.json", J_Pair) }

\* the selections of one change event
Uploads == SeqsUpTo(Files, MaxFiles) \ {<<>>}

\* lines 94-114: the message of the check that stops the file before it is
\* read, "" when it passes both
rejection(file) ==
  IF file.type # "application/json" THEN MSG_InvalidType
  ELSE IF file.size > MaxSize THEN MSG_TooLarge
  ELSE ""

failedEntry(entry, message) == [entry EXCEPT !.status = "error", !.message = message]

succeededEntry(entry, n) ==
  [fileName |-> entry.fileName, status |-> "success", message |-> importedMessage(n),
   questionsCount |-> n]

\* lines 89-114: the loop runs on to the next file that is read
RECURSIVE untilRead(_)
untilRead(u) ==
  IF u.i > Len(u.fileArray) \/ rejection(u.fileArray[u.i]) = "" THEN u
  ELSE untilRead([u EXCEPT !.progressArray[u.i] = failedEntry(@, rejection(u.fileArray[u.i])),
                           !.i = @ + 1])

\* lines 117-168: the message that ends the file whose read has settled,
\* "" when its questions are imported; jsonData is JSON.parse of its content
\* and extracted is parseJSONFormat of that
readError(file, jsonData, extracted) ==
  IF ~file.readable THEN MSG_ReadFailed
  ELSE IF trim(file.content) = <<>> THEN MSG_Empty
  ELSE IF ~jsonData.ok THEN MSG_InvalidJSON
  ELSE IF extracted.threw THEN MSG_TypeError
  ELSE IF Len(extracted.questions) = 0 THEN MSG_NoQuestions
  ELSE ""

\* lines 117-143: the message that ends the file and the questions it imports
settled(file, jsonData, extracted) ==
  [error |-> readError(file, jsonData, extracted),
   questions |-> IF readError(file, jsonData, extracted) = "" THEN extracted.questions ELSE <<>>]

\* line 133
extractedOutcome(file, jsonData) == settled(file, jsonData, parseJSONFormat(jsonData.v))

\* lines 117-143 for each file of the catalogue, worked out once
outcomes == [file \in Files |-> extractedOutcome(file, JSONParse(file.content))]

\* faulty variant: a failing file also discards the questions collected so far
processed_discarding(u) ==
  LET outcome == outcomes[u.fileArray[u.i]]
  IN IF outcome.error # ""
     THEN [u EXCEPT !.progressArray[u.i] = failedEntry(@, outcome.error),
                    !.allNewQuestions = <<>>, !.i = @ + 1]
     ELSE [u EXCEPT !.progressArray[u.i] = succeededEntry(@, Len(outcome.questions)),
                    !.allNewQuestions = @ \o outcome.questions, !.i = @ + 1]

\* faulty variant: a failing file keeps its processing entry
processed_unsettled(u) ==
  LET outcome == outcomes[u.fileArray[u.i]]
  IN IF outcome.error # ""
     THEN [u EXCEPT !.i = @ + 1]
     ELSE [u EXCEPT !.progressArray[u.i] = succeededEntry(@, Len(outcome.questions)),
                    !.allNewQuestions = @ \o outcome.questions, !.i = @ + 1]

\* lines 117-168: the iteration of file u.i from the settled read on
processed(u) ==
  LET outcome == outcomes[u.fileArray[u.i]]
  IN IF outcome.error # ""
     THEN [u EXCEPT !.progressArray[u.i] = failedEntry(@, outcome.error), !.i = @ + 1]
     ELSE [u EXCEPT !.progressArray[u.i] = succeededEntry(@, Len(outcome.questions)),
                    !.allNewQuestions = @ \o outcome.questions, !.i = @ + 1]

countOf(progressArray, status) ==
  Cardinality({k \in 1..Len(progressArray) : progressArray[k].status = status})

\* faulty variant: the uploaded questions follow the questions the test was
\* opened with
Resume_storedList(u, error) ==
  /\ input' = u.fileArray
  /\ ran' = {"handleFileUpload"}
  /\ uploadProgress' = u.progressArray
  /\ UNCHANGED <<clock, addQuestionsText, rawText, existingTest, calls, editorVars, testVars>>
  /\ IF u.i <= Len(u.fileArray)
     THEN /\ upload' = u
          /\ isUploading' = TRUE
          /\ uploadError' = error
          /\ pc' = "reading"
          /\ output' = ReturnedList(<<>>)
          /\ UNCHANGED <<parsedQuestions, isPreviewMode, showAddQuestions>>
     ELSE /\ upload' = NoUpload
          /\ isUploading' = FALSE
          /\ pc' = "done"
          /\ output' = ReturnedList(u.allNewQuestions)
          /\ parsedQuestions' =
               (IF Len(u.allNewQuestions) = 0 THEN parsedQuestions
                ELSE IF Truthy(existingTest) THEN existingTest.questions \o u.allNewQuestions
                ELSE u.allNewQuestions)
          /\ isPreviewMode' =
               (IF Len(u.allNewQuestions) > 0 /\ ~Truthy(existingTest) THEN TRUE ELSE isPreviewMode)
          /\ showAddQuestions' =
               (IF countOf(u.progressArray, "success") > 0 /\ countOf(u.progressArray, "error") = 0
                THEN FALSE ELSE showAddQuestions)
          /\ uploadError' =
               (IF countOf(u.progressArray, "success") = 0 /\ countOf(u.progressArray, "error") > 0
                THEN failedSummary(countOf(u.progressArray, "error")) ELSE error)

\* the handler has run on to u: it awaits the read of file u.i or, past the
\* last file, runs lines 171-196 and returns; error is the uploadError it
\* has set so far
Resume(u, error) ==
  /\ input' = u.fileArray
  /\ ran' = {"handleFileUpload"}
  /\ uploadProgress' = u.progressArray
  /\ UNCHANGED <<clock, addQuestionsText, rawText, existingTest, calls, editorVars, testVars>>
  /\ IF u.i <= Len(u.fileArray)
     THEN /\ upload' = u
          /\ isUploading' = TRUE
          /\ uploadError' = error
          /\ pc' = "reading"
          /\ output' = ReturnedList(<<>>)
          /\ UNCHANGED <<parsedQuestions, isPreviewMode, showAddQuestions>>
     ELSE /\ upload' = NoUpload
          /\ isUploading' = FALSE
          /\ pc' = "done"
          /\ output' = ReturnedList(u.allNewQuestions)
          /\ parsedQuestions' =
               (IF Len(u.allNewQuestions) = 0 THEN parsedQuestions
                ELSE IF Truthy(existingTest) THEN parsedQuestions \o u.allNewQuestions
                ELSE u.allNewQuestions)
          /\ isPreviewMode' =
               (IF Len(u.allNewQuestions) > 0 /\ ~Truthy(existingTest) THEN TRUE ELSE isPreviewMode)
          /\ showAddQuestions' =
               (IF countOf(u.progressArray, "success") > 0 /\ countOf(u.progressArray, "error") = 0
                THEN FALSE ELSE showAddQuestions)
          /\ uploadError' =
               (IF countOf(u.progressArray, "success") = 0 /\ countOf(u.progressArray, "error") > 0
                THEN failedSummary(countOf(u.progressArray, "error")) ELSE error)

\* a file input is rendered and enabled
fileInputEnabled == ~isUploading /\ (isPreviewMode => showAddQuestions)

\* onChange of a file input with at least one file (line 66 returns when
\* there is none): lines 68-83 and the loop up to the first awaited read
SelectFilesFrom(selections) ==
  /\ fileInputEnabled
  /\ upload = NoUpload
  /\ Len(parsedQuestions) <= MaxParsed
  /\ \E files \in selections :
       Resume(untilRead([fileArray |-> files, i |-> 1,
                         progressArray |-> [k \in 1..Len(files) |->
                                              [fileName |-> files[k].name, status |-> "processing",
                                               message |-> "Processing..."]],
                         allNewQuestions |-> <<>>]),
              "null")

SelectFiles == SelectFilesFrom(Uploads)

\* the read awaited at line 117 settles and the handler runs on
FileRead ==
  /\ upload # NoUpload
  /\ \E u \in {untilRead(processed(upload))} : Resume(u, uploadError)

\* the X button above the progress list
ClearUploadProgress ==
  /\ Len(uploadProgress) > 0
  /\ isPreviewMode => showAddQuestions
  /\ uploadProgress' = <<>>
  /\ uploadError' = "null"
  /\ Forget
  /\ UNCHANGED <<addQuestionsText, rawText, parsedQuestions, isPreviewMode, showAddQuestions,
                 isUploading, upload, existingTest>>

\* the Back to Parser button of the preview
BackToParser ==
  /\ isPreviewMode /\ ~Truthy(existingTest)
  /\ isPreviewMode' = FALSE
  /\ Forget
  /\ UNCHANGED <<addQuestionsText, rawText, parsedQuestions, uploadError, uploadProgress,
                 showAddQuestions, isUploading, upload, existingTest>>

NextUpload ==
  \/ SelectFiles
  \/ FileRead
  \/ ClearUploadProgress
  \/ OpenAddQuestions
  \/ CancelAddQuestions
  \/ BackToParser

SpecUpload == InitDispatch /\ [][NextUpload]_vars

\* the FileReader of line 199-206 ends every read with onload or onerror
SpecUploadFair == SpecUpload /\ WF_vars(FileRead)

\* ------------------------------------------------------------------------
\* The preview: questions are added by text, by upload and by hand, and
\* edited or deleted, also while an upload awaits a file read.  calls
\* records the edits: the editor clicked, whether an upload was in flight
\* and, if so, its files.
\* ------------------------------------------------------------------------
T_NewQuestion == <<"N", "e", "w", " ", "q", "u", "e", "s", "t", "i", "o", "n">>

OptionLabel(letter) == <<"O", "p", "t", "i", "o", "n", " ", letter>>

\* what handleSave of an editor passes to onSave
EditUpdates ==
  { [question |-> JStr(<<"U">>), options |-> <<T_a, T_b, T_x>>, correctAnswer |-> 2,
     explanation |-> JStr(<<"e">>), additionalSections |-> Undefined] }

EditTexts == { J_Item, joinLines(<<LP_Numbered, LP_OptionA, LP_QLabel, LP_OptionStar>>) }

EditUploads ==
  { <<JSONFile("comma.json", J_TrailingComma)>>,
    <<JSONFile("item.json", J_Item), JSONFile("pair.json", J_Pair)>> }

\* { ...q, ...updates }
merged(q, updates) == [f \in DOMAIN q |-> IF f \in DOMAIN updates THEN updates[f] ELSE q[f]]

\* faulty variant: only the first question with the id is replaced
updateQuestion_firstOnly(prev, questionId, updates) ==
  [i \in 1..Len(prev) |->
     IF prev[i].id = questionId /\ \A j \in 1..(i - 1) : prev[j].id # questionId
     THEN merged(prev[i], updates) ELSE prev[i]]

\* prev.map((q) => (q.id === questionId ? { ...q, ...updates } : q))
updateQuestion(prev, questionId, updates) ==
  [i \in 1..Len(prev) |-> IF prev[i].id = questionId THEN merged(prev[i], updates) ELSE prev[i]]

\* prev.filter((q) => q.id !== questionId)
deleteQuestion(prev, questionId) ==
  LET Kept(q) == q.id # questionId IN SelectSeq(prev, Kept)

\* an edit is recorded; the handler run last stays as it was
Edited(fn, index) ==
  /\ calls' = Append(calls, [fn |-> fn, index |-> index, uploading |-> upload # NoUpload,
                             files |-> upload.fileArray])
  /\ UNCHANGED <<parserVars, addQuestionsText, rawText, uploadError, uploadProgress, isPreviewMode,
                 showAddQuestions, isUploading, upload, existingTest, editors, testVars>>

\* Save of the editor of question index
UpdateQuestion ==
  /\ isPreviewMode
  /\ Len(calls) < MaxEdits
  /\ \E index \in 1..Len(parsedQuestions) : \E updates \in EditUpdates :
       /\ parsedQuestions' = updateQuestion(parsedQuestions, parsedQuestions[index].id, updates)
       /\ editingQuestion' = NoQuestion
       /\ Edited("updateQuestion", index)

\* Delete of the editor of question index
DeleteQuestion ==
  /\ isPreviewMode
  /\ Len(calls) < MaxEdits
  /\ \E index \in 1..Len(parsedQuestions) :
       /\ parsedQuestions' = deleteQuestion(parsedQuestions, parsedQuestions[index].id)
       /\ UNCHANGED editingQuestion
       /\ Edited("deleteQuestion", index)

\* Create Blank Question of the Add Questions panel
AddNewQuestion ==
  /\ isPreviewMode /\ showAddQuestions
  /\ Len(parsedQuestions) <= MaxParsed
  /\ parsedQuestions' =
       Append(parsedQuestions,
              MCQQuestion(clock, JStr(T_NewQuestion),
                          <<OptionLabel("A"), OptionLabel("B"), OptionLabel("C"), OptionLabel("D")>>,
                          0, Undefined, Undefined))
  /\ showAddQuestions' = FALSE
  /\ editingQuestion' = clock
  /\ UNCHANGED <<parserVars, calls, editors, testVars, addQuestionsText, rawText, uploadError, uploadProgress,
                 isPreviewMode, isUploading, upload, existingTest>>

NextEdit ==
  \/ OpenAddQuestions
  \/ SetAddQuestionsTextFrom(EditTexts)
  \/ ParseText
  \/ SelectFilesFrom(EditUploads)
  \/ FileRead
  \/ AddNewQuestion
  \/ UpdateQuestion
  \/ DeleteQuestion

SpecEdit == InitDispatch /\ [][NextEdit]_vars

\* ------------------------------------------------------------------------
\* QuestionEditor (lines 965-1147) in the preview of a test being edited.
\* editors[i] holds the useState values of the editor of parsedQuestions[i],
\* which stays mounted while its question is in the list (key, line 751).
\* calls records the handlers run: the handler, the editor and its argument.
\* ------------------------------------------------------------------------
EditedTest ==
  [t |-> "test", name |-> <<"T">>,
   questions |-> << MCQQuestion(0, JStr(<<"E">>), <<T_a, T_b>>, 1, Undefined, Undefined),
                    MCQQuestion(1, JStr(<<"Q">>), <<T_a, T_b, T_x>>, 2, JStr(<<"e">>), Undefined) >>]

\* value || fallback
orElse(value, fallback) == IF Truthy(value) THEN value ELSE fallback

\* lines 976-980
editorOf(question) ==
  [editedQuestion |-> question.question,
   editedOptions |-> question.options,
   editedCorrectAnswer |-> question.correctAnswer,
   editedExplanation |-> orElse(question.explanation, JStr(<<>>)),
   editedAdditionalSections |-> orElse(question.additionalSections, JArr(<<>>))]

\* lines 983-989: the updates handleSave passes to onSave
updatesOf(editor) ==
  [question |-> editor.editedQuestion,
   options |-> editor.editedOptions,
   correctAnswer |-> editor.editedCorrectAnswer,
   explanation |-> orElse(editor.editedExplanation, Undefined),
   additionalSections |-> IF Len(editor.editedAdditionalSections.a) > 0
                          THEN editor.editedAdditionalSections ELSE Undefined]

\* options.filter((_, i) => i !== index)
without(options, index) ==
  IF index \in 0..(Len(options) - 1)
  THEN [k \in 1..(Len(options) - 1) |-> IF k <= index THEN options[k] ELSE options[k + 1]]
  ELSE options

\* faulty variant: the correct answer is left where it was
afterDelete_keepsAnswer(options, correctAnswer, index) ==
  IF Len(options) > 2
  THEN [options |-> without(options, index), correctAnswer |-> correctAnswer]
  ELSE [options |-> options, correctAnswer |-> correctAnswer]

\* lines 551-555 and lines 997-1005: the options and the correct answer after
\* the option at index is deleted
afterDelete(options, correctAnswer, index) ==
  IF Len(options) > 2
  THEN [options |-> without(options, index),
        correctAnswer |-> IF correctAnswer > index THEN correctAnswer - 1
                          ELSE IF correctAnswer = index THEN 0
                          ELSE correctAnswer]
  ELSE [options |-> options, correctAnswer |-> correctAnswer]

\* `Option ${String.fromCharCode(65 + options.length)}`
addedOption(options) == OptionLabel(UpperLetters[Len(options) + 1])

InitEditor ==
  /\ input = <<>>
  /\ output = ReturnedList(<<>>)
  /\ pc = "idle"
  /\ ran = {}
  /\ clock = 1000
  /\ calls = <<>>
  /\ InitParser(EditedTest)
  /\ editingQuestion = NoQuestion
  /\ editors = [i \in 1..Len(EditedTest.questions) |-> editorOf(EditedTest.questions[i])]
  /\ InitTest(NoTest)

isEditing(index) == editingQuestion = parsedQuestions[index].id

\* the handler fn of editor index has run with arg
Handled(fn, index, arg) ==
  /\ Len(calls) < MaxHandled
  /\ calls' = Append(calls, [fn |-> fn, index |-> index, arg |-> arg])
  /\ UNCHANGED <<parserVars, addQuestionsText, rawText, uploadError, uploadProgress,
                 isPreviewMode, showAddQuestions, isUploading, upload, existingTest, testVars>>

\* the Edit button of an editor in view mode
OnEdit ==
  \E index \in 1..Len(parsedQuestions) :
    /\ ~isEditing(index)
    /\ editingQuestion' = parsedQuestions[index].id
    /\ UNCHANGED <<parsedQuestions, editors>>
    /\ Handled("onEdit", index, 0)

\* a field of the editor in edit mode is set to value
Edited_field(fn, index, arg, field, value) ==
  /\ isEditing(index)
  /\ editors' = [editors EXCEPT ![index] = [@ EXCEPT ![field] = value]]
  /\ UNCHANGED <<parsedQuestions, editingQuestion>>
  /\ Handled(fn, index, arg)

\* onChange of the question text area (line 1027)
ChangeQuestion ==
  \E index \in 1..Len(parsedQuestions) :
    Edited_field("setEditedQuestion", index, 0, "editedQuestion", JStr(<<"U">>))

\* onChange of the input of an option (lines 1046-1050)
ChangeOption ==
  \E index \in 1..Len(parsedQuestions) : \E k \in 1..Len(editors[index].editedOptions) :
    Edited_field("setEditedOptions", index, k - 1, "editedOptions",
                 [editors[index].editedOptions EXCEPT ![k] = <<"u">>])

\* Set Correct of an option (line 1055)
SetCorrect ==
  \E index \in 1..Len(parsedQuestions) : \E k \in 1..Len(editors[index].editedOptions) :
    Edited_field("setEditedCorrectAnswer", index, k - 1, "editedCorrectAnswer", k - 1)

\* onChange of the explanation text area (line 1073)
ChangeExplanation ==
  \E index \in 1..Len(parsedQuestions) : \E text \in {<<>>, <<"u">>} :
    Edited_field("setEditedExplanation", index, Len(text), "editedExplanation", JStr(text))

\* Add Option
HandleAddOption ==
  \E index \in 1..Len(parsedQuestions) :
    /\ Len(editors[index].editedOptions) < MaxEditorOptions
    /\ Edited_field("handleAddOption", index, 0, "editedOptions",
                    Append(editors[index].editedOptions, addedOption(editors[index].editedOptions)))

\* the delete button of an option, rendered while there are more than two
HandleDeleteOption ==
  \E index \in 1..Len(parsedQuestions) : \E k \in 1..Len(editors[index].editedOptions) :
    /\ isEditing(index)
    /\ Len(editors[index].editedOptions) > 2
    /\ \E after \in {afterDelete(editors[index].editedOptions,
                                 editors[index].editedCorrectAnswer, k - 1)} :
         editors' = [editors EXCEPT ![index] = [@ EXCEPT !.editedOptions = after.options,
                                                         !.editedCorrectAnswer = after.correctAnswer]]
    /\ UNCHANGED <<parsedQuestions, editingQuestion>>
    /\ Handled("handleDeleteOption", index, k - 1)

\* Save: handleSave and onSave (lines 756-759)
HandleSave ==
  \E index \in 1..Len(parsedQuestions) :
    /\ isEditing(index)
    /\ parsedQuestions' = updateQuestion(parsedQuestions, parsedQuestions[index].id,
                                         updatesOf(editors[index]))
    /\ editingQuestion' = NoQuestion
    /\ UNCHANGED editors
    /\ Handled("handleSave", index, 0)

\* Cancel: onCancel (line 760)
OnCancel ==
  \E index \in 1..Len(parsedQuestions) :
    /\ isEditing(index)
    /\ editingQuestion' = NoQuestion
    /\ UNCHANGED <<parsedQuestions, editors>>
    /\ Handled("onCancel", index, 0)

\* lines 539-545
addOption(prev, questionId) ==
  [i \in 1..Len(prev) |->
     IF prev[i].id = questionId
     THEN [prev[i] EXCEPT !.options = Append(@, addedOption(@))] ELSE prev[i]]

\* lines 549-559
deleteOption(prev, questionId, optionIndex) ==
  [i \in 1..Len(prev) |->
     IF prev[i].id = questionId
     THEN [prev[i] EXCEPT
             !.options = afterDelete(prev[i].options, prev[i].correctAnswer, optionIndex).options,
             !.correctAnswer =
                afterDelete(prev[i].options, prev[i].correctAnswer, optionIndex).correctAnswer]
     ELSE prev[i]]

\* the prop onAddOption of an editor (line 762); no control of
\* QuestionEditor calls it, the action is the call the prop allows
AddOption ==
  \E index \in 1..Len(parsedQuestions) :
    /\ Len(parsedQuestions[index].options) < MaxEditorOptions
    /\ parsedQuestions' = addOption(parsedQuestions, parsedQuestions[index].id)
    /\ UNCHANGED <<editingQuestion, editors>>
    /\ Handled("addOption", index, 0)

\* the prop onDeleteOption of an editor (line 763), called as AddOption is
DeleteOption ==
  \E index \in 1..Len(parsedQuestions) :
  \E optionIndex \in 0..(Len(parsedQuestions[index].options) - 1) :
    /\ parsedQuestions' = deleteOption(parsedQuestions, parsedQuestions[index].id, optionIndex)
    /\ UNCHANGED <<editingQuestion, editors>>
    /\ Handled("deleteOption", index, optionIndex)

NextEditor ==
  \/ OnEdit
  \/ ChangeQuestion
  \/ ChangeOption
  \/ SetCorrect
  \/ ChangeExplanation
  \/ HandleAddOption
  \/ HandleDeleteOption
  \/ HandleSave
  \/ OnCancel
  \/ AddOption
  \/ DeleteOption

SpecEditor == InitEditor /\ [][NextEditor]_vars

\* ------------------------------------------------------------------------
\* TestInterface (test-interface.tsx, lines 491-911) and handleTestComplete
\* of HomePage.  The component of lines 43-137 has the same handlers and no
\* set-up screen: it is the one below started with both switches off.
\* ------------------------------------------------------------------------
\* selectedAnswer when it is null
NoAnswer == 0 - 1

T_Unknown ==
  <<"U", "n", "k", "n", "o", "w", "n", " ", "q", "u", "e", "s", "t", "i", "o", "n">>

T_note == <<"n">>

\* what the user types into Personal Notes
Notes == { <<>>, <<" ">>, T_note }

\* Date.now() - questionStartTime of an answer, in seconds
Elapsed == 1..MaxElapsed

\* the tests of the Tests tab: the sample test with a one-question file or
\* a two-question file uploaded to it in the editor (line 171-179), and the
\* sample test with its only question edited to three options
TakenTests ==
  { [t |-> "test", name |-> <<"T">>,
     questions |-> SampleTest.questions \o outcomes[JSONFile("item.json", J_Item)].questions],
    [t |-> "test", name |-> <<"T">>,
     questions |-> SampleTest.questions \o outcomes[JSONFile("pair.json", J_Pair)].questions],
    [t |-> "test", name |-> <<"T">>,
     questions |-> << MCQQuestion(0, JStr(<<"E">>), <<T_a, T_b, T_a>>, 2, Undefined, Undefined) >>] }

\* [shuffled[i], shuffled[j]] = [shuffled[j], shuffled[i]]
swapped(shuffled, i, j) == [shuffled EXCEPT ![i] = shuffled[j], ![j] = shuffled[i]]

\* lines 493-496 from position i down: the arrays the draws of Math.random()
\* that remain can leave
RECURSIVE shuffledFrom(_, _)
shuffledFrom(shuffled, i) ==
  IF i <= 1 THEN {shuffled}
  ELSE UNION {shuffledFrom(swapped(shuffled, i, j), i - 1) : j \in 1..i}

\* every outcome of shuffleArray(array)
shuffleArray(array) == shuffledFrom(array, Len(array))

\* options.map((option, index) => ({ option, originalIndex: index }))
optionsWithIndex(options) ==
  [k \in 1..Len(options) |-> [option |-> options[k], originalIndex |-> k - 1]]

\* shuffled.findIndex((item) => item.originalIndex === correctAnswer)
indexOfOriginal(shuffled, correctAnswer) ==
  LET hits == {k \in 1..Len(shuffled) : shuffled[k].originalIndex = correctAnswer}
  IN IF hits = {} THEN 0 - 1 ELSE (CHOOSE k \in hits : \A h \in hits : k <= h) - 1

\* faulty variant: the correct answer keeps its position
shuffledOptions_samePosition(shuffled, correctAnswer) ==
  [options |-> [k \in 1..Len(shuffled) |-> shuffled[k].option],
   newCorrectAnswer |-> correctAnswer]

\* lines 507-510 for the shuffled array
shuffledOptions(shuffled, correctAnswer) ==
  [options |-> [k \in 1..Len(shuffled) |-> shuffled[k].option],
   newCorrectAnswer |-> indexOfOriginal(shuffled, correctAnswer)]

\* every outcome of createShuffledOptions(options, correctAnswer)
createShuffledOptions(options, correctAnswer) ==
  {shuffledOptions(shuffled, correctAnswer) : shuffled \in shuffleArray(optionsWithIndex(options))}

\* lines 539-542: every outcome of shuffling the options of each question
RECURSIVE withShuffledOptions(_)
withShuffledOptions(questions) ==
  IF questions = <<>> THEN {<<>>}
  ELSE {<<[Head(questions) EXCEPT !.options = o.options, !.correctAnswer = o.newCorrectAnswer]>>
          \o rest :
        o \in createShuffledOptions(Head(questions).options, Head(questions).correctAnswer),
        rest \in withShuffledOptions(Tail(questions))}

\* lines 529-536: the outcomes { questionsToUse, mapping } of the question order
questionOrders(questions, randomize) ==
  LET identity == [k \in 1..Len(questions) |-> [question |-> questions[k], originalIndex |-> k - 1]]
  IN {[questionsToUse |-> [k \in 1..Len(shuffledData) |-> shuffledData[k].question],
       mapping |-> [k \in 1..Len(shuffledData) |-> shuffledData[k].originalIndex]] :
      shuffledData \in (IF randomize THEN shuffleArray(identity) ELSE {identity})}

\* faulty variant: the id of the question at the same position of the test
originalQuestionId_samePosition(questions, mapping, index) == questions[index + 1].id

\* line 549: test.questions[mapping[index]]?.id || q.id; the mapping is in
\* range and an id `q-${n}` is never empty, so the first operand is taken
originalQuestionId(questions, mapping, index) == questions[mapping[index + 1] + 1].id

\* lines 548-558
initialResults(questions, questionsToUse, mapping) ==
  [k \in 1..Len(questionsToUse) |->
     [questionId |-> originalQuestionId(questions, mapping, k - 1), selectedAnswer |-> NoAnswer,
      isCorrect |-> FALSE, timeSpent |-> 0, isBookmarked |-> FALSE, note |-> <<>>]]

currentQuestion == shuffledQuestions[currentQuestionIndex + 1]

currentResult == results[currentQuestionIndex + 1]

\* the test screen of lines 698-910 is rendered
testShown == Truthy(activeTest) /\ testStarted /\ ~isTestComplete

InitTaken ==
  /\ input = <<>>
  /\ output = ReturnedList(<<>>)
  /\ pc = "idle"
  /\ ran = {}
  /\ clock = 1000
  /\ calls = <<>>
  /\ InitParser(NoTest)
  /\ NoEditors
  /\ \E test \in TakenTests : InitTest(test)

\* the handlers below leave the parser, the editors and the page's test alone
TestHandler == UNCHANGED <<parserVars, uiVars, calls, editorVars, activeTest, studyNotes>>

\* the two switches of the set-up screen
SetRandomizeQuestions ==
  /\ Truthy(activeTest) /\ ~testStarted
  /\ randomizeQuestions' = ~randomizeQuestions
  /\ TestHandler
  /\ UNCHANGED <<randomizeOptions, testStarted, shuffledQuestions, questionMapping,
                 currentQuestionIndex, results, showFeedback, isTestComplete>>

SetRandomizeOptions ==
  /\ Truthy(activeTest) /\ ~testStarted
  /\ randomizeOptions' = ~randomizeOptions
  /\ TestHandler
  /\ UNCHANGED <<randomizeQuestions, testStarted, shuffledQuestions, questionMapping,
                 currentQuestionIndex, results, showFeedback, isTestComplete>>

\* Start Test
InitializeTest ==
  /\ Truthy(activeTest) /\ ~testStarted
  /\ \E order \in questionOrders(activeTest.questions, randomizeQuestions) :
     \E questionsToUse \in (IF randomizeOptions THEN withShuffledOptions(order.questionsToUse)
                            ELSE {order.questionsToUse}) :
       /\ shuffledQuestions' = questionsToUse
       /\ questionMapping' = order.mapping
       /\ results' = initialResults(activeTest.questions, questionsToUse, order.mapping)
  /\ testStarted' = TRUE
  /\ TestHandler
  /\ UNCHANGED <<randomizeQuestions, randomizeOptions, currentQuestionIndex, showFeedback,
                 isTestComplete>>

\* faulty variant: an answered question takes another answer
alreadyAnswered_never(result) == FALSE

\* line 625, and disabled of the option buttons (line 789)
alreadyAnswered(result) == result.selectedAnswer # NoAnswer

\* a click on option answerIndex
HandleAnswerSelect ==
  /\ testShown
  /\ ~alreadyAnswered(currentResult)
  /\ \E answerIndex \in 0..(Len(currentQuestion.options) - 1) : \E timeSpent \in Elapsed :
       results' = [results EXCEPT ![currentQuestionIndex + 1] =
                     [@ EXCEPT !.selectedAnswer = answerIndex,
                               !.isCorrect = (answerIndex = currentQuestion.correctAnswer),
                               !.timeSpent = timeSpent]]
  /\ showFeedback' = TRUE
  /\ TestHandler
  /\ UNCHANGED <<randomizeQuestions, randomizeOptions, testStarted, shuffledQuestions,
                 questionMapping, currentQuestionIndex, isTestComplete>>

ToggleBookmark ==
  /\ testShown
  /\ results' = [results EXCEPT ![currentQuestionIndex + 1].isBookmarked = ~@]
  /\ TestHandler
  /\ UNCHANGED <<randomizeQuestions, randomizeOptions, testStarted, shuffledQuestions,
                 questionMapping, currentQuestionIndex, showFeedback, isTestComplete>>

UpdateNote ==
  /\ testShown
  /\ \E note \in Notes : results' = [results EXCEPT ![currentQuestionIndex + 1].note = note]
  /\ TestHandler
  /\ UNCHANGED <<randomizeQuestions, randomizeOptions, testStarted, shuffledQuestions,
                 questionMapping, currentQuestionIndex, showFeedback, isTestComplete>>

\* Next and Finish Test, both disabled until the question shown is answered
GoToNextQuestion ==
  /\ testShown
  /\ currentResult.selectedAnswer # NoAnswer
  /\ IF currentQuestionIndex < Len(shuffledQuestions) - 1
     THEN /\ currentQuestionIndex' = currentQuestionIndex + 1
          /\ showFeedback' = FALSE
          /\ UNCHANGED isTestComplete
     ELSE /\ isTestComplete' = TRUE
          /\ UNCHANGED <<currentQuestionIndex, showFeedback>>
  /\ TestHandler
  /\ UNCHANGED <<randomizeQuestions, randomizeOptions, testStarted, shuffledQuestions,
                 questionMapping, results>>

GoToPreviousQuestion ==
  /\ testShown
  /\ currentQuestionIndex > 0
  /\ currentQuestionIndex' = currentQuestionIndex - 1
  /\ showFeedback' = (results[currentQuestionIndex].selectedAnswer # NoAnswer)
  /\ TestHandler
  /\ UNCHANGED <<randomizeQuestions, randomizeOptions, testStarted, shuffledQuestions,
                 questionMapping, results, isTestComplete>>

\* a click on a button of the question navigation
JumpToQuestion ==
  /\ testShown
  /\ \E index \in 0..(Len(shuffledQuestions) - 1) :
       /\ currentQuestionIndex' = index
       /\ showFeedback' = (results[index + 1].selectedAnswer # NoAnswer)
  /\ TestHandler
  /\ UNCHANGED <<randomizeQuestions, randomizeOptions, testStarted, shuffledQuestions,
                 questionMapping, results, isTestComplete>>

\* Restart of the summary
RestartTest ==
  /\ Truthy(activeTest) /\ isTestComplete
  /\ testStarted' = FALSE
  /\ currentQuestionIndex' = 0
  /\ results' = <<>>
  /\ shuffledQuestions' = <<>>
  /\ questionMapping' = <<>>
  /\ showFeedback' = FALSE
  /\ isTestComplete' = FALSE
  /\ TestHandler
  /\ UNCHANGED <<randomizeQuestions, randomizeOptions>>

\* activeTest?.questions.find((q) => q.id === result.questionId): the
\* position of the question found, 0 when find returns undefined
find(questions, questionId) ==
  LET hits == {k \in 1..Len(questions) : questions[k].id = questionId}
  IN IF hits = {} THEN 0 ELSE CHOOSE k \in hits : \A h \in hits : k <= h

\* line 316 and 322
questionTextOf(questions, questionId) ==
  LET found == find(questions, questionId)
  IN IF found # 0 /\ Truthy(questions[found].question) THEN questions[found].question
     ELSE JStr(T_Unknown)

\* lines 313-328: the notes of the results from position k on
RECURSIVE newNotes(_, _, _)
newNotes(rs, questions, testName) ==
  IF rs = <<>> THEN <<>>
  ELSE (IF trim(Head(rs).note) # <<>>
        THEN << [id |-> Head(rs).questionId, content |-> Head(rs).note, testName |-> testName,
                 questionText |-> questionTextOf(questions, Head(rs).questionId),
                 isBookmarked |-> Head(rs).isBookmarked] >>
        ELSE <<>>) \o newNotes(Tail(rs), questions, testName)

\* TestInterface is unmounted
Unmounted ==
  /\ activeTest' = NoTest
  /\ randomizeQuestions' = FALSE
  /\ randomizeOptions' = FALSE
  /\ testStarted' = FALSE
  /\ shuffledQuestions' = <<>>
  /\ questionMapping' = <<>>
  /\ currentQuestionIndex' = 0
  /\ results' = <<>>
  /\ showFeedback' = FALSE
  /\ isTestComplete' = FALSE
  /\ UNCHANGED <<parserVars, uiVars, calls, editorVars>>

\* Finish of the summary: finishTest and handleTestComplete (page.tsx 293-333)
FinishTest ==
  /\ Truthy(activeTest) /\ isTestComplete
  /\ studyNotes' = studyNotes \o newNotes(results, activeTest.questions, activeTest.name)
  /\ Unmounted

\* Cancel of the set-up screen and Exit Test: onExit (page.tsx 406)
ExitTest ==
  /\ Truthy(activeTest) /\ ~isTestComplete
  /\ UNCHANGED studyNotes
  /\ Unmounted

NextTaken ==
  \/ SetRandomizeQuestions
  \/ SetRandomizeOptions
  \/ InitializeTest
  \/ HandleAnswerSelect
  \/ ToggleBookmark
  \/ UpdateNote
  \/ GoToNextQuestion
  \/ GoToPreviousQuestion
  \/ JumpToQuestion
  \/ RestartTest
  \/ FinishTest
  \/ ExitTest

SpecTaken == InitTaken /\ [][NextTaken]_vars

\* ------------------------------------------------------------------------
\* createShuffledOptions on its own: input is { options, correctAnswer },
\* output the object returned and calls the array shuffleArray returned
\* ------------------------------------------------------------------------
ShuffleInputs ==
  {[options |-> options, correctAnswer |-> correctAnswer] :
     options \in SeqsUpTo({T_a, T_b}, MaxShuffled) \ {<<>>}, correctAnswer \in 0..(MaxShuffled - 1)}

InitShuffle ==
  /\ input \in {i \in ShuffleInputs : i.correctAnswer < Len(i.options)}
  /\ output = ReturnedList(<<>>)
  /\ pc = "call"
  /\ ran = {}
  /\ clock = 1000
  /\ calls = <<>>
  /\ InitUI(NoTest)

CallCreateShuffledOptions ==
  /\ pc = "call"
  /\ \E shuffled \in shuffleArray(optionsWithIndex(input.options)) :
       /\ output' = shuffledOptions(shuffled, input.correctAnswer)
       /\ calls' = <<[fn |-> "createShuffledOptions", shuffled |-> shuffled]>>
  /\ ran' = {"createShuffledOptions"}
  /\ pc' = "done"
  /\ UNCHANGED <<input, clock, uiVars, editorVars, testVars>>

NextShuffle == CallCreateShuffledOptions

SpecShuffle == InitShuffle /\ [][NextShuffle]_vars

\* ------------------------------------------------------------------------
\* Vocabulary of the properties
\* ------------------------------------------------------------------------
Range(s) == {s[i] : i \in 1..Len(s)}

Done == pc = "done"

Returned == Done /\ ~output.threw

\* a QuestionObject of the input grammar with a non-empty question text
IsQuestionItem(v) ==
  /\ v.t = "obj"
  /\ Get(v, K_question).t = "str" /\ Get(v, K_question).s # <<>>
  /\ Get(v, K_options).t = "arr"
  /\ \A i \in 1..Len(Get(v, K_options).a) : Get(v, K_options).a[i].t = "str"
  /\ Get(v, K_correct_answer).t \in {"undefined", "str"}

OptionsOf(v) == [i \in 1..Len(Get(v, K_options).a) |-> Get(v, K_options).a[i].s]

GlyphPositions(v) == {i \in 1..Len(OptionsOf(v)) : GLYPH \in Range(OptionsOf(v)[i])}

\* the answer text of an item, trimmed and case-folded (empty when absent)
AnswerText(v) ==
  IF Get(v, K_correct_answer).t = "str" THEN toLowerCase(trim(Get(v, K_correct_answer).s)) ELSE <<>>

HasAnswer(v) == Get(v, K_correct_answer).t = "str" /\ Get(v, K_correct_answer).s # <<>>

\* containment in either direction, ignoring case
Overlaps(optionText, answerText) ==
  \/ includes(toLowerCase(optionText), answerText)
  \/ includes(answerText, toLowerCase(optionText))

\* the single question parsed from a question item
TheQuestion == output.questions[1]

ParsedOne == Returned /\ Len(output.questions) = 1

\* positions (1-based) of the stored options that overlap the answer text
OverlapPositions(v) ==
  {i \in 1..Len(TheQuestion.options) : Overlaps(TheQuestion.options[i], AnswerText(v))}

Least(S) == CHOOSE i \in S : \A j \in S : i <= j

\* ------------------------------------------------------------------------
\* C4: for a JSON question item in which exactly one option string contains
\* the marker glyph, the parsed correctAnswer is that option's position,
\* even when correct_answer names another option, and no stored option
\* text contains the glyph.
\* ------------------------------------------------------------------------
C4_MarkedOptionWins ==
  (Done /\ IsQuestionItem(input) /\ Cardinality(GlyphPositions(input)) = 1) =>
    /\ ParsedOne
    /\ TheQuestion.correctAnswer + 1 \in GlyphPositions(input)
    /\ \A i \in 1..Len(TheQuestion.options) : GLYPH \notin Range(TheQuestion.options[i])

\* the marked option is the second one while correct_answer names the first
C4_Witness ==
  /\ Done
  /\ input = Item(JStr(T_Q), StrArr(<< <<"a", "b">>, <<"b", " ", GLYPH>> >>), JStr(<<"A", "B">>))
  /\ ParsedOne
  /\ TheQuestion.correctAnswer = 1
  /\ TheQuestion.options = << <<"a", "b">>, <<"b">> >>

\* ------------------------------------------------------------------------
\* C5 as stated: for a JSON question item without marker glyph whose
\* correct_answer equals, ignoring case and surrounding blanks, the text of
\* exactly one option, the parsed correctAnswer is that option's position,
\* whatever the other options are.
\* ------------------------------------------------------------------------
EqualPositions(v) ==
  {i \in 1..Len(OptionsOf(v)) : toLowerCase(trim(OptionsOf(v)[i])) = AnswerText(v)}

C5_Precondition ==
  /\ Done /\ IsQuestionItem(input)
  /\ GlyphPositions(input) = {}
  /\ Get(input, K_correct_answer).t = "str"
  /\ Cardinality(EqualPositions(input)) = 1

C5_ExactMatchWins ==
  C5_Precondition => (ParsedOne /\ TheQuestion.correctAnswer + 1 \in EqualPositions(input))

\* C5 amended: under the same precondition the parsed correctAnswer is that
\* option's position unless an earlier option's text contains, or is
\* contained in, the answer text; then the first such option wins.
C5_ExactMatchUnlessEarlierOverlap ==
  C5_Precondition =>
    /\ ParsedOne
    /\ TheQuestion.correctAnswer + 1 = Least(OverlapPositions(input))
    /\ ((\A j \in OverlapPositions(input) : \A i \in EqualPositions(input) : j >= i)
          => TheQuestion.correctAnswer + 1 \in EqualPositions(input))

\* the only equal option is the second one and the first does not overlap
C5_Witness ==
  /\ Done
  /\ input = Item(JStr(T_Q), StrArr(<< <<"a">>, <<"B">> >>), JStr(<<" ", "b", " ">>))
  /\ ParsedOne
  /\ TheQuestion.correctAnswer = 1

\* ------------------------------------------------------------------------
\* C6: for a JSON question item without marker glyph and with a non-empty
\* correct_answer, if some option's stored text contains the (trimmed)
\* answer text or is contained in it, ignoring case, correctAnswer is the
\* position of the first such option in option order.
\* ------------------------------------------------------------------------
C6_FirstOverlapWins ==
  (Done /\ IsQuestionItem(input) /\ GlyphPositions(input) = {} /\ HasAnswer(input)
        /\ ParsedOne /\ OverlapPositions(input) # {})
    => TheQuestion.correctAnswer + 1 = Least(OverlapPositions(input))

\* two options overlap the answer and the first of them is not option 0
C6_Witness ==
  /\ Done
  /\ input = Item(JStr(T_Q), StrArr(<< <<"a">>, <<"B">>, <<" ", "b">> >>), JStr(<<" ", "b", " ">>))
  /\ ParsedOne
  /\ OverlapPositions(input) = {2, 3}
  /\ TheQuestion.correctAnswer = 1

\* ------------------------------------------------------------------------
\* C7: for a JSON question item in which no option carries the marker glyph
\* and correct_answer is absent or overlaps no option in either direction,
\* the parsed correctAnswer is 0.
\* ------------------------------------------------------------------------
C7_DefaultsToZero ==
  (Done /\ IsQuestionItem(input) /\ GlyphPositions(input) = {})
    => /\ ParsedOne
       /\ (Get(input, K_correct_answer) = Undefined \/ OverlapPositions(input) = {})
            => TheQuestion.correctAnswer = 0

\* an answer text that overlaps none of two options
C7_Witness ==
  /\ Done
  /\ input = Item(JStr(T_Q), StrArr(<< <<"a">>, <<"B">> >>), JStr(<<"c">>))
  /\ ParsedOne
  /\ OverlapPositions(input) = {}
  /\ TheQuestion.correctAnswer = 0

\* ------------------------------------------------------------------------
\* C8: for a JSON array, or the questions array of a wrapper object, of
\* arbitrary JSON values, parseJSONFormat returns exactly one question per
\* element that has a (truthy) question and an array options, in the original
\* order with id q-<original position>; every other element is skipped and
\* never prevents its well-formed siblings from being returned.
\* ------------------------------------------------------------------------
IsBatchInput(v) ==
  \/ v.t = "arr"
  \/ /\ v.t = "obj"
     /\ ~(Truthy(Get(v, K_question)) /\ Truthy(Get(v, K_options)))
     /\ Get(v, K_questions).t = "arr"

BatchOf(v) == IF v.t = "arr" THEN v.a ELSE Get(v, K_questions).a

WellFormedElement(e) ==
  e.t = "obj" /\ Truthy(Get(e, K_question)) /\ Get(e, K_options).t = "arr"

WellFormedPositions(v) == {i \in 1..Len(BatchOf(v)) : WellFormedElement(BatchOf(v)[i])}

C8_BatchPartialSuccess ==
  (Done /\ IsBatchInput(input)) =>
    /\ ~output.threw
    /\ Len(output.questions) = Cardinality(WellFormedPositions(input))
    /\ \A k \in 1..Len(output.questions) :
         /\ output.questions[k].id + 1 \in WellFormedPositions(input)
         /\ \A j \in 1..(k - 1) : output.questions[j].id < output.questions[k].id

\* ------------------------------------------------------------------------
\* C9: parseJSONFormat, applied to any decoded JSON value, returns a
\* possibly empty question sequence and never throws to its caller.
\* ------------------------------------------------------------------------
C9_ExtractorNeverThrows == Done => ~output.threw

\* ------------------------------------------------------------------------
\* C1: every question returned by a parser entry point satisfies
\* 0 <= correctAnswer < options.length.
\* ------------------------------------------------------------------------
C1_CorrectAnswerInRange ==
  Returned =>
    \A k \in 1..Len(output.questions) :
      /\ 0 <= output.questions[k].correctAnswer
      /\ output.questions[k].correctAnswer < Len(output.questions[k].options)

\* ------------------------------------------------------------------------
\* C2: every question returned by a parser has at least one option; the
\* line-pattern parser flushes an in-progress question only if it has both
\* a question text and at least one collected option line.
\* ------------------------------------------------------------------------
C2_AtLeastOneOption ==
  Returned => \A k \in 1..Len(output.questions) : Len(output.questions[k].options) >= 1

\* ------------------------------------------------------------------------
\* C3: in the line-pattern parser a line `Answer: X`, `Correct: X` or
\* `Ans: X` (keyword in any case, X a letter A-D in either case) sets the
\* in-progress question's correctAnswer to the position of X (A=0 .. D=3);
\* so when such a line is the last line of the text, the last question
\* returned carries the position of X.
\* ------------------------------------------------------------------------
LastLine(text) == trimmedLines(text)[Len(trimmedLines(text))]

\* the letter that follows the colon of an answer line, as a position
NamedAnswer(line) ==
  LET c == CHOOSE c \in 1..Len(line) : line[c] = ":" /\ \A j \in 1..(c - 1) : line[j] # ":"
  IN LetterIndex(line[skipSpaces(line, c + 1)]) - 1

C3_AnswerLineSetsCorrectAnswer ==
  (Returned /\ "linePattern" \in ran /\ Len(output.questions) > 0 /\ isAnswerLine(LastLine(input))
            /\ Len(output.questions[Len(output.questions)].options) >= 1)
    => output.questions[Len(output.questions)].correctAnswer = NamedAnswer(LastLine(input))

\* ------------------------------------------------------------------------
\* C10: whenever the text handed to parseText is syntactically valid JSON,
\* the produced questions are exactly the JSON extractor's output for the
\* decoded value and no text-format parser runs on that text.
\* ------------------------------------------------------------------------
C10_ValidJSONNeverTextParsed ==
  (pc = "done" /\ ran # {} /\ JSONParse(input).ok) =>
    /\ "parseMCQText" \notin ran
    /\ ~parseJSONFormat(JSONParse(input).v).threw
    /\ output.questions = parseJSONFormat(JSONParse(input).v).questions

\* ------------------------------------------------------------------------
\* C11: parseMCQText returns exactly the structured-header parser's output
\* whenever that output is non-empty and otherwise exactly the line-pattern
\* parser's output; the results of the two parsers are never mixed.
\* ------------------------------------------------------------------------
C11_StructuredElseLinePattern ==
  (Returned /\ "parseMCQText" \in ran) =>
    IF parseStructuredFormat(input) # <<>>
    THEN output.questions = parseStructuredFormat(input)
    ELSE output.questions = parseLinePattern(input, clock)

\* both parsers find a question in the text, and not the same one
C11_Witness ==
  /\ Returned /\ "parseMCQText" \in ran
  /\ parseStructuredFormat(input) # <<>>
  /\ parseLinePattern(input, clock) # <<>>
  /\ parseLinePattern(input, clock) # parseStructuredFormat(input)
  /\ output.questions = parseStructuredFormat(input)

\* ------------------------------------------------------------------------
\* C12: for a text handed to the dispatcher that is not valid JSON, contains
\* no Question label and has no line starting with a numeral or a Q-prefixed
\* question label, the dispatcher yields no question without raising, and
\* parseText reports the "no valid questions" message and leaves
\* parsedQuestions unchanged.
\* ------------------------------------------------------------------------
MatchesNoConvention(text) ==
  /\ ~JSONParse(text).ok
  /\ ~hasLabel(text, L_Question)
  /\ \A i \in 1..Len(trimmedLines(text)) : ~isQuestionLine(trimmedLines(text)[i])

C12_NoConventionNoQuestions ==
  [][(pc' = "done" /\ "JSON.parse" \in ran' /\ MatchesNoConvention(input'))
       => /\ output' = ReturnedList(<<>>)
          /\ uploadError' = MSG_NoneParsed
          /\ parsedQuestions' = parsedQuestions]_vars

\* option, answer and explanation lines without a question line, added to a
\* test that already has a question
C12_Witness ==
  /\ pc = "done" /\ "linePattern" \in ran
  /\ input = joinLines(<<LP_OptionA, LP_Answer, LP_Why>>)
  /\ MatchesNoConvention(input)
  /\ output = ReturnedList(<<>>)
  /\ uploadError = MSG_NoneParsed
  /\ parsedQuestions # <<>>

\* ------------------------------------------------------------------------
\* C13: in handleFileUpload a file whose content is not syntactically valid
\* JSON ends with status error and the "Invalid JSON format" message, and
\* every file whose content is valid JSON but holds no question ends with
\* status error and the "No valid questions found" message.  Read for the
\* files whose content reaches JSON.parse.
\* ------------------------------------------------------------------------
UploadDone == pc = "done" /\ "handleFileUpload" \in ran

\* the file passes the type and size checks, is read and is not blank
ReachesJSONParse(file) ==
  /\ file.type = "application/json" /\ file.size <= MaxSize
  /\ file.readable /\ trim(file.content) # <<>>

\* a decoded value without any question: neither a question item nor a
\* batch with a well-formed element
NoQuestionIn(v) ==
  IF IsBatchInput(v) THEN WellFormedPositions(v) = {} ELSE ~WellFormedElement(v)

EndsWithError(entry, message) == entry.status = "error" /\ entry.message = message

C13_SyntaxErrorVersusNoQuestions ==
  UploadDone =>
    \A k \in 1..Len(input) :
      ReachesJSONParse(input[k]) =>
        /\ ~JSONParse(input[k].content).ok => EndsWithError(uploadProgress[k], MSG_InvalidJSON)
        /\ (JSONParse(input[k].content).ok /\ NoQuestionIn(JSONParse(input[k].content).v))
             => EndsWithError(uploadProgress[k], MSG_NoQuestions)

\* ------------------------------------------------------------------------
\* C14: in one multi-file upload a failing file (wrong type, too large,
\* empty, malformed JSON, no questions) aborts only its own processing: when
\* the upload ends, parsedQuestions ends with the questions of every
\* successfully parsed file, in file order and within-file order.
\* ------------------------------------------------------------------------
\* the questions a file contributes: those of its decoded content when it
\* reaches the extractor and the extractor returns, none otherwise
ImportedFrom(file) ==
  IF /\ ReachesJSONParse(file) /\ JSONParse(file.content).ok
     /\ ~parseJSONFormat(JSONParse(file.content).v).threw
  THEN parseJSONFormat(JSONParse(file.content).v).questions
  ELSE <<>>

RECURSIVE ImportedFromAll(_)
ImportedFromAll(files) ==
  IF files = <<>> THEN <<>> ELSE ImportedFrom(Head(files)) \o ImportedFromAll(Tail(files))

EndsWith(s, t) == Len(t) <= Len(s) /\ SubSeq(s, Len(s) - Len(t) + 1, Len(s)) = t

C14_FailedFileAbortsOnlyItself ==
  UploadDone => EndsWith(parsedQuestions, ImportedFromAll(input))

\* a two-question file followed by a malformed one, added to an existing test
C14_Witness ==
  /\ UploadDone
  /\ Len(input) = 2
  /\ input[1].content = J_Pair /\ input[2].content = J_TrailingComma
  /\ uploadProgress[1].status = "success" /\ uploadProgress[2].status = "error"
  /\ Truthy(existingTest)
  /\ parsedQuestions = existingTest.questions \o parseJSONFormat(JSONParse(J_Pair).v).questions
  /\ Len(parsedQuestions) = 3

\* ------------------------------------------------------------------------
\* Vocabulary of the structured-header properties: the lines of a text that
\* is one question block, and the section each line belongs to
\* ------------------------------------------------------------------------
\* the section a label line opens, "" for a line that is no label line
LabelKind(line) ==
  IF hasLabel(line, L_Question) THEN "question"
  ELSE IF hasLabel(line, L_Options) THEN "options"
  ELSE IF hasLabel(line, L_CorrectAnswer) THEN "answer"
  ELSE IF hasLabel(line, L_Reasoning) THEN "reasoning"
  ELSE IF customColon(line) > 0 THEN "additional"
  ELSE ""

\* the section of line k: the one opened by the nearest label line at or
\* before it
RECURSIVE SectionAt(_, _)
SectionAt(lines, k) ==
  IF k = 0 THEN ""
  ELSE IF LabelKind(lines[k]) # "" THEN LabelKind(lines[k])
  ELSE SectionAt(lines, k - 1)

\* the text is a single block that starts with its Question label
SingleBlock(text) == hasLabel(text, L_Question) /\ Len(SelectSeq(splitBlocks(text), NonBlank)) = 1

\* the structured parser returned the question of a single-block text
StructuredOne ==
  /\ Returned /\ "parseStructuredFormat" \in ran /\ "linePattern" \notin ran
  /\ SingleBlock(input)
  /\ Len(output.questions) = 1

SectionsOf(q) == IF q.additionalSections = Undefined THEN <<>> ELSE q.additionalSections.a

\* ------------------------------------------------------------------------
\* C15: in the structured-header parser every custom `<Label>:----` section
\* with a non-blank body inside a question block yields exactly one
\* additionalSections entry (title the label, content the body lines joined
\* by newlines), in order of appearance, whichever label line or block end
\* follows it.
\* ------------------------------------------------------------------------
\* the lines after label line k up to the next label line or the block end
BodyOf(lines, k) ==
  LET ends == {m \in k..Len(lines) : \A j \in (k + 1)..m : LabelKind(lines[j]) = ""}
  IN SubSeq(lines, k + 1, CHOOSE m \in ends : \A n \in ends : n <= m)

CustomLabelLines(lines) ==
  {k \in 1..Len(lines) : LabelKind(lines[k]) = "additional" /\ BodyOf(lines, k) # <<>>}

ExpectedSections(lines) ==
  LET labels == CustomLabelLines(lines)
      Nth(n) == CHOOSE k \in labels : Cardinality({j \in labels : j < k}) = n - 1
  IN [n \in 1..Cardinality(labels) |->
        [title |-> trim(SubSeq(lines[Nth(n)], 1, customColon(lines[Nth(n)]) - 1)),
         content |-> joinLines(BodyOf(lines, Nth(n)))]]

C15_CustomSectionsKept ==
  StructuredOne => SectionsOf(TheQuestion) = ExpectedSections(trimmedLines(input))

\* ------------------------------------------------------------------------
\* C16: for one parse call of any parser (JSON extractor, structured-header,
\* line-pattern) the ids of the returned questions are pairwise distinct.
\* ------------------------------------------------------------------------
C16_IdsDistinct ==
  Returned =>
    \A j, k \in 1..Len(output.questions) :
      j # k => output.questions[j].id # output.questions[k].id

\* the line-pattern pass returns two questions numbered from the clock on
C16_Witness ==
  /\ Returned /\ "linePattern" \in ran
  /\ Len(output.questions) = 2
  /\ output.questions[1].id = clock
  /\ output.questions[2].id = clock + 1

\* ------------------------------------------------------------------------
\* C17: the parsers hold no state across calls: two calls of parseJSONFormat
\* or of parseStructuredFormat with equal input return equal results, in any
\* order and with any other parser calls in between, and two calls of the
\* text parser with equal input return results that differ at most in the
\* clock-seeded ids.
\* ------------------------------------------------------------------------
WithoutIds(result) ==
  IF result.threw THEN result
  ELSE ReturnedList([k \in 1..Len(result.questions) |-> [result.questions[k] EXCEPT !.id = 0]])

Capitalised(key) ==
  [i \in 1..Len(key) |->
     IF key[i] = "_" THEN " "
     ELSE IF i = 1 \/ key[i - 1] \in {"_", " "} THEN UpperChar(key[i])
     ELSE key[i]]

BecomesSection(p) ==
  /\ p.k \notin {K_question, K_options, K_correct_answer, K_reasoning, K_title}
  /\ p.v.t = "str" /\ \E i \in 1..Len(p.v.s) : ~IsSpace(p.v.s[i])

ExpectedJSONSections(item) ==
  LET props == SelectSeq(item.o, BecomesSection)
  IN [i \in 1..Len(props) |-> [title |-> Capitalised(props[i].k), content |-> props[i].v.s]]

C18_OneSectionPerExtraString ==
  (Done /\ IsQuestionItem(input)) =>
    /\ ParsedOne
    /\ TheQuestion.additionalSections =
         (IF ExpectedJSONSections(input) = <<>> THEN Undefined
          ELSE JArr(ExpectedJSONSections(input)))

\* two sections in enumeration order among a title, a number and a reasoning
C18_Witness ==
  /\ Done /\ ParsedOne
  /\ input = JObj(<<Prop(K_title, JStr(T_x)), Prop(K_explanation, JStr(<<"e">>)),
                    Prop(K_context_note, JStr(<<"n">>)),
                    Prop(K_question, JStr(T_Q)), Prop(K_options, StrArr(<<T_a, T_b>>))>>)
  /\ TheQuestion.additionalSections =
       JArr(<< [title |-> <<"E", "x", "p", "l", "a", "n", "a", "t", "i", "o", "n">>, content |-> <<"e">>],
               [title |-> <<"C", "o", "n", "t", "e", "x", "t", " ", "N", "o", "t", "e">>,
                content |-> <<"n">>] >>)

\* ------------------------------------------------------------------------
\* C19: in the structured-header parser, when an option line of a block
\* bears the marker glyph, the block's final correctAnswer is that option's
\* position even if a Correct Answer label (same-line text or a following
\* answer-section line) anywhere in the block names another option.  Read
\* for blocks with exactly one marked option line.
\* ------------------------------------------------------------------------
OptionLineAt(lines, k) ==
  LabelKind(lines[k]) = "" /\ SectionAt(lines, k) = "options" /\ startsWith(lines[k], <<"-">>)

MarkedLines(lines) == {k \in 1..Len(lines) : OptionLineAt(lines, k) /\ hasGlyph(lines[k])}

\* the position (from 0) of the option of option line k
PositionOf(lines, k) == Cardinality({j \in 1..(k - 1) : OptionLineAt(lines, j)})

C19_MarkedOptionLineWins ==
  (StructuredOne /\ Cardinality(MarkedLines(trimmedLines(input))) = 1) =>
    \A k \in MarkedLines(trimmedLines(input)) :
      TheQuestion.correctAnswer = PositionOf(trimmedLines(input), k)

\* ------------------------------------------------------------------------
\* C20: in the structured-header parser, when the Question label line
\* carries no text after the label (bold `**Question:**`, or plain
\* `Question:` followed only by a run of dashes of any length), no same-line
\* text is extracted and the question text is the first following non-label
\* line with bold markup stripped.
\* ------------------------------------------------------------------------
BareQuestionLabel(line) ==
  \/ toLowerCase(line) = toLowerCase(bold(L_Question))
  \/ /\ MatchAtI(line, 1, L_Question)
     /\ LET d == skipSpaces(line, Len(L_Question) + 1)
        IN dashRun(line, d) >= 1 /\ d + dashRun(line, d) = Len(line) + 1

C20_BareLabelTakesNextLine ==
  (/\ StructuredOne
   /\ Len(trimmedLines(input)) >= 2
   /\ BareQuestionLabel(trimmedLines(input)[1])
   /\ LabelKind(trimmedLines(input)[2]) = "")
    => TheQuestion.question = JStr(trim(removeAll(trimmedLines(input)[2], BOLD)))

\* ------------------------------------------------------------------------
\* C21: in the structured-header parser the explanation of a block is the
\* Reasoning label's trailing same-line text (if any) followed by the
\* subsequent non-label lines of the reasoning section, joined by newlines;
\* after a `Reasoning:` label followed only by dashes it consists solely of
\* the following lines, with no character of the label's dash run.  Read
\* for blocks with one Reasoning label line that starts with the label.
\* ------------------------------------------------------------------------
\* what follows the label at the start of the line and its run of dashes
TrailingText(line, label) ==
  IF MatchAtI(line, 1, bold(label)) THEN trim(dropFirst(line, Len(label) + 4))
  ELSE LET d == skipSpaces(line, Len(label) + 1)
       IN trim(dropFirst(line, d + dashRun(line, d) - 1))

StartsWithLabel(line, label) == boldAt(line, 1, label) \/ plainAt(line, 1, label)

ReasoningLabelLines(lines) == {k \in 1..Len(lines) : LabelKind(lines[k]) = "reasoning"}

ExpectedExplanation(lines, k) ==
  joinLines((IF TrailingText(lines[k], L_Reasoning) # <<>>
             THEN <<TrailingText(lines[k], L_Reasoning)>> ELSE <<>>) \o BodyOf(lines, k))

C21_ExplanationIsLabelTextThenLines ==
  (StructuredOne /\ Cardinality(ReasoningLabelLines(trimmedLines(input))) = 1) =>
    \A k \in ReasoningLabelLines(trimmedLines(input)) :
      StartsWithLabel(trimmedLines(input)[k], L_Reasoning) =>
        TheQuestion.explanation =
          (IF ExpectedExplanation(trimmedLines(input), k) = <<>> THEN Undefined
           ELSE JStr(ExpectedExplanation(trimmedLines(input), k)))

\* ------------------------------------------------------------------------
\* C22: in the structured-header parser a non-label line inside the answer
\* section is treated as answer text only when the Correct Answer label
\* line captured no same-line text; once same-line text was captured, the
\* later lines of the answer section never change correctAnswer.  Read for
\* an answer section that runs to the end of its block: the question's
\* correctAnswer is then the one held right after the label line.
\* ------------------------------------------------------------------------
AnswerLabelLines(lines) == {k \in 1..Len(lines) : LabelKind(lines[k]) = "answer"}

\* correctAnswer once the lines up to line k have been processed
CorrectAnswerAfter(lines, k) == blockLoop(BlockStart, SubSeq(lines, 1, k)).correctAnswer

C22_AnswerLinesIgnoredAfterSameLineText ==
  StructuredOne =>
    \A k \in AnswerLabelLines(trimmedLines(input)) :
      (/\ capture(trimmedLines(input)[k], L_CorrectAnswer) # <<>>
       /\ k + Len(BodyOf(trimmedLines(input), k)) = Len(trimmedLines(input)))
        => TheQuestion.correctAnswer = CorrectAnswerAfter(trimmedLines(input), k)

\* ------------------------------------------------------------------------
\* C23: for structured-header text split into blocks, the output holds
\* exactly one question for each block that contains a Question-label line
\* and collected both a non-empty question text and at least one option,
\* with the block's index as id, in block order; a block failing this is
\* skipped and changes nothing of what its sibling blocks produce.
\* ------------------------------------------------------------------------
BlocksOf(text) == SelectSeq(splitBlocks(text), NonBlank)

\* the block has a Question label and collects a question text and an option
Yields(block) ==
  /\ hasLabel(block, L_Question)
  /\ blockLoop(BlockStart, trimmedLines(block)).question # <<>>
  /\ Len(blockLoop(BlockStart, trimmedLines(block)).options) > 0

\* what the block produces when it is the whole text, numbered index
AloneAs(block, index) == [parseStructuredFormat(block)[1] EXCEPT !.id = index]

ExpectedOfBlocks(blocks) ==
  LET yielding == {i \in 1..Len(blocks) : Yields(blocks[i])}
      Nth(n) == CHOOSE i \in yielding : Cardinality({j \in yielding : j < i}) = n - 1
  IN [n \in 1..Cardinality(yielding) |-> AloneAs(blocks[Nth(n)], Nth(n) - 1)]

StructuredRan == Returned /\ ran = {"parseStructuredFormat"}

C23_OneQuestionPerCompleteBlock ==
  StructuredRan => output.questions = ExpectedOfBlocks(BlocksOf(input))

\* a block without options between two complete blocks
C23_Witness ==
  /\ StructuredRan
  /\ Len(BlocksOf(input)) = 3
  /\ Yields(BlocksOf(input)[1]) /\ ~Yields(BlocksOf(input)[2]) /\ Yields(BlocksOf(input)[3])
  /\ Len(output.questions) = 2
  /\ output.questions[1].id = 0 /\ output.questions[2].id = 2

\* ------------------------------------------------------------------------
\* C24: no additionalSections entry of the JSON extractor is derived from a
\* property that was mapped to a core field of the same question; when the
\* item's `explanation` property supplies the explanation, no section
\* titled `Explanation` with the same text is produced.
\* ------------------------------------------------------------------------
\* property p of the item is the source of a core field of question q
SuppliesCoreField(p, q) ==
  \/ p.k \in {K_question, K_options, K_correct_answer}
  \/ p.k \in {K_reasoning, K_explanation} /\ Truthy(p.v) /\ q.explanation = p.v

DerivedFrom(section, p) ==
  section.title = Capitalised(p.k) /\ JStr(section.content) = p.v

C24_NoSectionFromCoreProperty ==
  (Done /\ IsQuestionItem(input) /\ ParsedOne) =>
    \A i \in 1..Len(input.o) :
      SuppliesCoreField(input.o[i], TheQuestion) =>
        \A j \in 1..Len(SectionsOf(TheQuestion)) :
          ~DerivedFrom(SectionsOf(TheQuestion)[j], input.o[i])

\* ------------------------------------------------------------------------
\* C25: in the line-pattern parser every option line of a question appends
\* one option to it, and an option line containing `*` or the checkmark
\* makes that option's position the correctAnswer: without an Answer line
\* in the question the final correctAnswer is the position of the last
\* emphasised option, or 0 when no option is emphasised.
\* ------------------------------------------------------------------------
LinePatternRan == Returned /\ "linePattern" \in ran

QuestionLines(lines) == {k \in 1..Len(lines) : isQuestionLine(lines[k])}

\* the lines of the question opened at line k, up to the next question line
LinesOfQuestion(lines, k) ==
  LET ends == {m \in k..Len(lines) : \A j \in (k + 1)..m : ~isQuestionLine(lines[j])}
  IN SubSeq(lines, k + 1, CHOOSE m \in ends : \A n \in ends : n <= m)

\* the position (from 0) of the last emphasised option, 0 without one
LastEmphasised(optionLines) ==
  LET marked == {i \in 1..Len(optionLines) :
                   includes(optionLines[i], <<"*">>) \/ includes(optionLines[i], <<TICK>>)}
  IN IF marked = {} THEN 0 ELSE (CHOOSE i \in marked : \A j \in marked : j <= i) - 1

C25_OptionLinesAndEmphasis ==
  LinePatternRan =>
    LET lines == trimmedLines(input)
        starts == QuestionLines(lines)
        Nth(n) == CHOOSE k \in starts : Cardinality({j \in starts : j < k}) = n - 1
    IN /\ Len(output.questions) = Cardinality(starts)
       /\ \A n \in 1..Cardinality(starts) :
            LET own == LinesOfQuestion(lines, Nth(n))
                optionLines == SelectSeq(own, isOptionLine)
            IN /\ output.questions[n].options =
                    [i \in 1..Len(optionLines) |-> trim(dropFirst(optionLines[i], 3))]
               /\ (\A i \in 1..Len(own) : ~isAnswerLine(own[i])) =>
                    output.questions[n].correctAnswer = LastEmphasised(optionLines)

\* three option lines, the first two emphasised, and no Answer line
C25_Witness ==
  /\ LinePatternRan
  /\ input = joinLines(<<LP_Numbered, LP_OptionStar, LP_OptionTick, LP_OptionA>>)
  /\ Len(output.questions) = 1
  /\ Len(output.questions[1].options) = 3
  /\ output.questions[1].correctAnswer = 1

\* ------------------------------------------------------------------------
\* C26: after any sequence of imports (uploads, text adds, manual adds),
\* updateQuestion(id, updates) replaces exactly the one targeted question by
\* the shallow-merged value and deleteQuestion(id) removes exactly the one
\* targeted question; every other question of parsedQuestions stays as it
\* was and in the same relative order.
\* ------------------------------------------------------------------------
LastEdit == calls[Len(calls)]

\* the list with position index left out
WithoutPosition(list, index) == SubSeq(list, 1, index - 1) \o SubSeq(list, index + 1, Len(list))

\* the edit recorded last has just been made
JustEdited(fn) ==
  /\ Len(calls') = Len(calls) + 1
  /\ calls'[Len(calls')].fn = fn

C26_EditTouchesOnlyItsTarget ==
  [][/\ JustEdited("deleteQuestion") =>
          parsedQuestions' = WithoutPosition(parsedQuestions, calls'[Len(calls')].index)
     /\ JustEdited("updateQuestion") =>
          /\ Len(parsedQuestions') = Len(parsedQuestions)
          /\ \A i \in 1..Len(parsedQuestions) :
               IF i = calls'[Len(calls')].index
               THEN \E updates \in EditUpdates :
                      parsedQuestions'[i] = merged(parsedQuestions[i], updates)
               ELSE parsedQuestions'[i] = parsedQuestions[i]]_vars

\* ------------------------------------------------------------------------
\* C27: on the import screen (not preview mode), Parse Questions pressed
\* while the main text area (rawText) holds non-blank text with at least one
\* recognisable question parses that text, stores its questions in
\* parsedQuestions and switches to preview mode.
\* ------------------------------------------------------------------------
Recognisable(text) == trim(text) # <<>> /\ Len(dispatch(text, clock).questions) > 0

\* parseText has just run
JustParsed == pc' = "done" /\ ran' \cap {"handleFileUpload"} = {}

C27_ImportScreenParsesRawText ==
  [][(~isPreviewMode /\ Recognisable(rawText) /\ JustParsed) =>
       /\ parsedQuestions' = dispatch(rawText, clock).questions
       /\ isPreviewMode']_vars

\* ------------------------------------------------------------------------
\* C28: in preview mode, adding questions through the Add Questions panel
\* (text input or file upload) never removes questions: afterwards
\* parsedQuestions is the previous list followed by the newly parsed
\* questions, both when editing an existing test and when previewing a
\* test that is not created yet.
\* ------------------------------------------------------------------------
\* parseText has just added the questions of the panel's text
TextAdded ==
  /\ showAddQuestions /\ trim(addQuestionsText) # <<>>
  /\ pc' = "done" /\ "JSON.parse" \in ran' /\ input' = addQuestionsText
  /\ Len(output'.questions) > 0

\* handleFileUpload has just returned
UploadReturned == upload # NoUpload /\ upload' = NoUpload

C28_PanelAddsAppend ==
  [][(isPreviewMode /\ (TextAdded \/ UploadReturned)) =>
       parsedQuestions' = parsedQuestions \o output'.questions]_vars

\* ------------------------------------------------------------------------
\* C29: when an existing test is edited, the edits and deletions the user
\* makes while a file upload is in flight (between the awaited reads) are
\* not lost or reverted when the upload completes: the final
\* parsedQuestions is the list as the user left it followed by the
\* uploaded questions.
\* ------------------------------------------------------------------------
C29_EditsDuringUploadKept ==
  [][(Truthy(existingTest) /\ UploadReturned) =>
       parsedQuestions' = parsedQuestions \o ImportedFromAll(upload.fileArray)]_vars

\* the test's question was deleted while item.json and pair.json were being
\* read; the upload has returned and the list holds the three uploaded
\* questions and not the deleted one
C29_Witness ==
  /\ Truthy(existingTest)
  /\ UploadDone /\ upload = NoUpload
  /\ Len(calls) = 1
  /\ calls[1].fn = "deleteQuestion" /\ calls[1].uploading /\ calls[1].files = input
  /\ Len(output.questions) = 3
  /\ parsedQuestions = output.questions

\* ------------------------------------------------------------------------
\* C30: every invocation of handleFileUpload with at least one file
\* eventually completes with isUploading false and, in its final progress
\* list, exactly one entry per selected file whose status is success or
\* error (none left as processing), also when a file read rejects or
\* parsing throws.
\* ------------------------------------------------------------------------
\* the handler has returned and every selected file has its settled entry
UploadSettled ==
  /\ UploadDone /\ upload = NoUpload
  /\ ~isUploading
  /\ Len(uploadProgress) = Len(input)
  /\ \A k \in 1..Len(input) :
       /\ uploadProgress[k].fileName = input[k].name
       /\ uploadProgress[k].status \in {"success", "error"}

C30_UploadCompletes == (upload # NoUpload) ~> UploadSettled

\* a file whose read rejects and a file on which the extractor throws
C30_Witness ==
  /\ UploadSettled
  /\ Len(input) = 2
  /\ ~input[1].readable /\ input[2].content = J_Null
  /\ uploadProgress[1].message = MSG_ReadFailed
  /\ uploadProgress[2].message = MSG_TypeError

\* ------------------------------------------------------------------------
\* C31: in QuestionEditor, Cancel discards pending edits: after Edit, any
\* changes to the edit fields, and Cancel, a later Edit followed
\* immediately by Save leaves the question's text, options, correctAnswer
\* and explanation exactly as they were before the first Edit.
\* ------------------------------------------------------------------------
\* the handler fn of editor index is the call made in this step
JustHandled(fn, index) ==
  /\ Len(calls') = Len(calls) + 1
  /\ calls'[Len(calls')].fn = fn
  /\ calls'[Len(calls')].index = index

\* the editor of question index was cancelled, and since then the question
\* was neither saved nor changed through the option props
CancelledBefore(index) ==
  \E c \in 1..Len(calls) :
    /\ calls[c].fn = "onCancel" /\ calls[c].index = index
    /\ \A d \in c..Len(calls) :
         calls[d].index = index => calls[d].fn \notin {"handleSave", "addOption", "deleteOption"}

\* Save comes immediately after Edit
EditedJustBefore(index) ==
  /\ calls # <<>>
  /\ calls[Len(calls)].fn = "onEdit" /\ calls[Len(calls)].index = index

SameContent(q, r) ==
  /\ q.question = r.question
  /\ q.options = r.options
  /\ q.correctAnswer = r.correctAnswer
  /\ q.explanation = r.explanation

C31_CancelDiscardsEdits ==
  [][\A index \in 1..Len(parsedQuestions) :
       (CancelledBefore(index) /\ EditedJustBefore(index) /\ JustHandled("handleSave", index))
         => SameContent(parsedQuestions'[index], parsedQuestions[index])]_vars

\* ------------------------------------------------------------------------
\* C32: deleting an option (deleteOption in MCQParser, handleDeleteOption in
\* QuestionEditor) of a question with 0 <= correctAnswer < options.length
\* never takes the options below 2, keeps 0 <= correctAnswer <
\* options.length and, when the deleted option is not the correct one,
\* leaves correctAnswer pointing at the same option text as before;
\* deleting the correct option resets correctAnswer to 0; with exactly 2
\* options the deletion is a no-op.
\* ------------------------------------------------------------------------
\* options and correctAnswer became options2 and correctAnswer2 when the
\* option at index was deleted
DeletedAsClaimed(options, correctAnswer, index, options2, correctAnswer2) ==
  (Len(options) >= 2 /\ correctAnswer \in 0..(Len(options) - 1)) =>
    /\ Len(options2) >= 2
    /\ correctAnswer2 \in 0..(Len(options2) - 1)
    /\ IF Len(options) = 2
       THEN options2 = options /\ correctAnswer2 = correctAnswer
       ELSE /\ Len(options2) = Len(options) - 1
            /\ \A k \in 1..Len(options2) :
                 options2[k] = options[IF k <= index THEN k ELSE k + 1]
            /\ IF index = correctAnswer THEN correctAnswer2 = 0
               ELSE options2[correctAnswer2 + 1] = options[correctAnswer + 1]

C33_AnswerIsWriteOnce ==
  [][\A i \in 1..Len(results) :
       (results[i].selectedAnswer # NoAnswer /\ testStarted') =>
         /\ i <= Len(results')
         /\ results'[i].selectedAnswer = results[i].selectedAnswer
         /\ results'[i].isCorrect = results[i].isCorrect
         /\ results'[i].timeSpent = results[i].timeSpent]_vars

\* the first two questions are answered, the first one wrongly; the user
\* went back to it, bookmarked it and wrote a note
C33_Witness ==
  /\ testShown
  /\ currentQuestionIndex = 0 /\ showFeedback
  /\ Len(results) >= 2
  /\ results[1].selectedAnswer # NoAnswer /\ ~results[1].isCorrect
  /\ results[2].selectedAnswer # NoAnswer
  /\ results[1].isBookmarked /\ results[1].note = T_note

\* ------------------------------------------------------------------------
\* C34: in every reachable state of a started test, for each position i,
\* results[i].isCorrect is true iff results[i].selectedAnswer is non-null
\* and equals the correctAnswer of the question displayed at position i
\* (after question and option randomisation), and results[i].questionId is
\* the id of that displayed question.
\* ------------------------------------------------------------------------
C34_ResultsMatchDisplayedQuestions ==
  testStarted =>
    /\ Len(results) = Len(shuffledQuestions)
    /\ \A i \in 1..Len(results) :
         /\ results[i].isCorrect <=>
              (/\ results[i].selectedAnswer # NoAnswer
               /\ results[i].selectedAnswer = shuffledQuestions[i].correctAnswer)
         /\ results[i].questionId = shuffledQuestions[i].id

\* both switches are on; the question shown first is the test's third, its
\* id differs from the id of the test's first question, and it is answered
\* correctly; the question shown second had its options reordered and is
\* answered wrongly
C34_Witness ==
  /\ testStarted /\ randomizeQuestions /\ randomizeOptions
  /\ Len(results) = 3
  /\ questionMapping[1] = 2
  /\ results[1].questionId # activeTest.questions[1].id
  /\ results[1].isCorrect
  /\ shuffledQuestions[2].options # activeTest.questions[questionMapping[2] + 1].options
  /\ results[2].selectedAnswer # NoAnswer /\ ~results[2].isCorrect

\* ------------------------------------------------------------------------
\* C35: in every reachable state of a started, not yet completed test,
\* showFeedback is true iff the currently displayed question has already
\* been answered (results[currentQuestionIndex].selectedAnswer is
\* non-null), after any sequence of answer, Next, Previous and jump actions.
\* ------------------------------------------------------------------------
C35_FeedbackIffAnswered ==
  testShown => (showFeedback <=> currentResult.selectedAnswer # NoAnswer)

\* ------------------------------------------------------------------------
\* C36: a test reaches the completed state (isTestComplete true, summary
\* and score shown) only after every question of the test has been
\* answered: whenever isTestComplete is true, every
\* results[i].selectedAnswer is non-null.
\* ------------------------------------------------------------------------
C36_CompleteOnlyWhenAllAnswered ==
  isTestComplete => \A i \in 1..Len(results) : results[i].selectedAnswer # NoAnswer

\* ------------------------------------------------------------------------
\* C37: createShuffledOptions(options, correctAnswer) with
\* 0 <= correctAnswer < options.length returns, for every possible shuffle
\* outcome, a permutation of options and a newCorrectAnswer in range such
\* that the option at newCorrectAnswer is the original option at position
\* correctAnswer (by position, also when option texts are duplicated).
\* ------------------------------------------------------------------------
\* the array that shuffleArray returned to the call
TheShuffled == calls[1].shuffled

C37_ShuffleKeepsCorrectOption ==
  (pc = "done" /\ ran = {"createShuffledOptions"}) =>
    /\ Len(output.options) = Len(input.options)
    /\ Len(TheShuffled) = Len(input.options)
    /\ {TheShuffled[k].originalIndex : k \in 1..Len(TheShuffled)} = 0..(Len(input.options) - 1)
    /\ \A k \in 1..Len(TheShuffled) :
         output.options[k] = input.options[TheShuffled[k].originalIndex + 1]
    /\ output.newCorrectAnswer \in 0..(Len(input.options) - 1)
    /\ TheShuffled[output.newCorrectAnswer + 1].originalIndex = input.correctAnswer

\* options a, b, a with the third one correct: the shuffle moved it to the
\* front and the other a behind it
C37_Witness ==
  /\ pc = "done" /\ ran = {"createShuffledOptions"}
  /\ input.options = <<T_a, T_b, T_a>> /\ input.correctAnswer = 2
  /\ output.options = <<T_a, T_a, T_b>> /\ output.newCorrectAnswer = 0
  /\ TheShuffled[2].originalIndex = 0

\* ------------------------------------------------------------------------
\* C38: when a test is finished, every study note created by
\* handleTestComplete carries as questionText the text of the very question
\* on which the user wrote that note, for any test whose questions were
\* produced by any sequence of imports (including several JSON files or
\* repeated parses merged into one test).
\* ------------------------------------------------------------------------
\* the positions of the results with a note, in order
NotedPositions ==
  LET Noted(k) == trim(results[k].note) # <<>>
  IN SelectSeq([k \in 1..Len(results) |-> k], Noted)

\* Finish of the summary is the step taken
TestFinished == Truthy(activeTest) /\ isTestComplete /\ ~Truthy(activeTest')

C38_NotesCarryTheirQuestion ==
  [][TestFinished =>
       /\ Len(studyNotes') = Len(studyNotes) + Len(NotedPositions)
       /\ \A k \in 1..Len(NotedPositions) :
            /\ studyNotes'[Len(studyNotes) + k].content = results[NotedPositions[k]].note
            /\ studyNotes'[Len(studyNotes) + k].questionText =
                 shuffledQuestions[NotedPositions[k]].question]_vars
====
